---------------------------- MODULE Spec2Model ----------------------------
(***************************************************************************)
(* Point-of-sale web application: the HTTP handlers for authentication     *)
(* (login, user and admin registration) and for the product catalogue,     *)
(* with their validation schemas, services, persistence collections and    *)
(* the error/response shaping they share.                                  *)
(*                                                                         *)
(* Strings are TLA+ strings; characters are strings of length one.         *)
(* Prices are carried in thousandths (9990 is 9.99).                       *)
(***************************************************************************)
EXTENDS Integers, Sequences, FiniteSets, TLC

VARIABLES
    users,          \* the user collection: a set of user documents
    products,       \* the product collection: a set of product documents
    nextUserId,     \* how many user identifiers the store has generated
    nextProductId,  \* how many product identifiers the store has generated
    clock,          \* the server's wall clock, in milliseconds
    nodeEnv,        \* process.env.NODE_ENV
    last,           \* the request handled last and the response it got
    created,        \* history: per inserted user, the request that created it and its answer
    deleted,        \* history: the product ids a DELETE has answered 200 for
    inflight,       \* registrations between their uniqueness read and their insert
    migration,      \* the password migration script: its position and its counters
    connection,     \* the persistence handles of the process and the calls obtaining them
    cart,           \* the sales page: its line items, quantity field and pending removals
    hook            \* useProducts: the product list a client holds, its loading and error

vars == <<users, products, nextUserId, nextProductId, clock, nodeEnv, last,
          created, deleted, inflight, migration, connection, cart, hook>>

\* what no request handler writes: the environment and the work in progress
clientVars  == <<connection, cart, hook>>
processVars == <<nodeEnv, inflight, migration, clientVars>>
authVars    == <<users, nextUserId, created>>
productVars == <<products, nextProductId, clock, deleted>>

(***************************************************************************)
(* Bounds of the model.                                                    *)
(***************************************************************************)
MaxProductIds == 2    \* how many products are ever created
MaxClock      == 1    \* the latest instant the server starts at

-----------------------------------------------------------------------------
(***************************************************************************)
(* String primitives (JavaScript's String methods used by the schemas).    *)
(***************************************************************************)
CharAt(s, i) == SubSeq(s, i, i)

UpperLetters == "ABCDEFGHIJKLMNOPQRSTUVWXYZ"
LowerLetters == "abcdefghijklmnopqrstuvwxyz"
Digits       == "0123456789"
HexLetters   == "abcdefABCDEF"

CharsOf(s) == {CharAt(s, i) : i \in 1..Len(s)}

UpperSet == CharsOf(UpperLetters)
LowerSet == CharsOf(LowerLetters)
DigitSet == CharsOf(Digits)
HexSet   == CharsOf(HexLetters) \cup DigitSet

IsLetter(c) == c \in UpperSet \/ c \in LowerSet
IsDigit(c)  == c \in DigitSet
IsAlnum(c)  == IsLetter(c) \/ IsDigit(c)
IsSpace(c)  == c = " "

LowerOf ==
    [c \in UpperSet |->
        CharAt(LowerLetters, CHOOSE i \in 1..Len(UpperLetters) : CharAt(UpperLetters, i) = c)]

LowerChar(c) == IF c \in UpperSet THEN LowerOf[c] ELSE c

RECURSIVE toLowerCase(_)
toLowerCase(s) ==
    IF s = "" THEN ""
    ELSE LowerChar(CharAt(s, 1)) \o toLowerCase(SubSeq(s, 2, Len(s)))

RECURSIVE trimStart(_)
trimStart(s) ==
    IF s # "" /\ IsSpace(CharAt(s, 1)) THEN trimStart(SubSeq(s, 2, Len(s))) ELSE s

RECURSIVE trimEnd(_)
trimEnd(s) ==
    IF s # "" /\ IsSpace(CharAt(s, Len(s))) THEN trimEnd(SubSeq(s, 1, Len(s) - 1)) ELSE s

trim(s) == trimEnd(trimStart(s))

\* val.replace(/\s+/g, ' '): every run of whitespace becomes one space
RECURSIVE collapseSpaces(_)
collapseSpaces(s) ==
    IF Len(s) < 2 THEN s
    ELSE IF IsSpace(CharAt(s, 1)) /\ IsSpace(CharAt(s, 2))
         THEN collapseSpaces(SubSeq(s, 2, Len(s)))
         ELSE CharAt(s, 1) \o collapseSpaces(SubSeq(s, 2, Len(s)))

RECURSIVE Repeat(_, _)
Repeat(s, n) ==
    IF n = 0 THEN ""
    ELSE LET half == Repeat(s, n \div 2)
         IN  half \o half \o (IF n % 2 = 1 THEN s ELSE "")

startsWith(s, p) == Len(s) >= Len(p) /\ SubSeq(s, 1, Len(p)) = p

-----------------------------------------------------------------------------
(***************************************************************************)
(* Identifiers generated by the document store: 24 hexadecimal characters. *)
(***************************************************************************)
ObjectIdPad == Repeat("0", 23)
ObjectId(n) == ObjectIdPad \o CharAt("123456789abcdef", n)

\* /^[a-f\d]{24}$/i
IsObjectId(s) ==
    /\ Len(s) = Len(ObjectIdPad) + 1
    /\ \A i \in 1..Len(s) : CharAt(s, i) \in HexSet

-----------------------------------------------------------------------------
(***************************************************************************)
(* Credential hashing (bcrypt).  A digest carries the algorithm prefix,    *)
(* the cost, the salt drawn for it and the hashed password; comparing      *)
(* re-hashes the candidate with the salt read from the stored digest.      *)
(* The hash itself is kept symbolic: distinct (salt, password) pairs give  *)
(* distinct digests.                                                       *)
(***************************************************************************)
BcryptPrefix == "$2b$10$"
SaltLen      == Len("s1.")
Salts        == {"s1.", "s2."}

bcryptHashWith(password, salt) == BcryptPrefix \o salt \o password

bcryptCompare(password, hash) ==
    /\ startsWith(hash, BcryptPrefix)
    /\ Len(hash) >= Len(BcryptPrefix) + SaltLen
    /\ hash = bcryptHashWith(password,
                 SubSeq(hash, Len(BcryptPrefix) + 1, Len(BcryptPrefix) + SaltLen))

\* AuthService.hashPassword: the digest the service stores, for the salt drawn
hashPasswordIdentity(password, salt) == password
hashPassword(password, salt) == bcryptHashWith(password, salt)

comparePassword(password, hash) == bcryptCompare(password, hash)

-----------------------------------------------------------------------------
(***************************************************************************)
(* Validation schemas of the auth routes.  A request body is a record; its *)
(* field "has" lists the keys the JSON object carries.  Each schema is a   *)
(* pair: the issues it reports (in the order the checks run) and the value *)
(* it yields when there are none.  Messages are written without accents.   *)
(***************************************************************************)
PasswordMin == 8
PasswordMax == 100

LocalExtra == CharsOf("_'+-.")
LocalEnd   == CharsOf("_+-")

\* the domain part: ([A-Z0-9][A-Z0-9\-]*\.)+[A-Z]{2,}
DomainOk(d) ==
    \E dot \in 1..Len(d) :
        /\ CharAt(d, dot) = "."
        /\ dot > 1
        /\ Len(d) - dot >= 2
        /\ \A i \in (dot + 1)..Len(d) : IsLetter(CharAt(d, i))
        /\ IsAlnum(CharAt(d, 1))
        /\ \A i \in 1..dot : \/ IsAlnum(CharAt(d, i))
                             \/ CharAt(d, i) = "-"
                             \/ CharAt(d, i) = "."
        /\ \A i \in 1..(dot - 1) : CharAt(d, i) = "." => IsAlnum(CharAt(d, i + 1))

\* z.string().email(): the whole string must match the address pattern, so
\* surrounding whitespace fails it
isEmail(s) ==
    /\ ~ startsWith(s, ".")
    /\ ~ \E i \in 1..(Len(s) - 1) : SubSeq(s, i, i + 1) = ".."
    /\ \E at \in 2..Len(s) :
        /\ CharAt(s, at) = "@"
        /\ \A i \in 1..(at - 1) : IsAlnum(CharAt(s, i)) \/ CharAt(s, i) \in LocalExtra
        /\ IsAlnum(CharAt(s, at - 1)) \/ CharAt(s, at - 1) \in LocalEnd
        /\ DomainOk(SubSeq(s, at + 1, Len(s)))

\* The addresses requests carry, and those the schemas turn them into.  The
\* two string computations of the email schema are tabulated over them.
EmailInputs  == {"a@x.io", "A@x.io", "b@x.io", " a@x.io", "ax.io", ""}
EmailStrings == EmailInputs \cup {trim(toLowerCase(e)) : e \in EmailInputs}

emailShaped     == [e \in EmailStrings |-> isEmail(e)]
emailNormalized == [e \in EmailStrings |-> trim(toLowerCase(e))]

Issue(cond, msg) == IF cond THEN <<msg>> ELSE <<>>

\* email: z.string().min(1).email().toLowerCase().trim()
EmailIssues(b) ==
    IF "email" \notin b.has THEN <<"email: Required">>
    ELSE Issue(Len(b.email) < 1, "email: El email es obligatorio")
         \o Issue(~ emailShaped[b.email], "email: Formato de email invalido")

\* password: z.string().min(8).max(100)
PasswordIssuesNoMax(b) ==
    IF "password" \notin b.has THEN <<"password: Required">>
    ELSE Issue(Len(b.password) < PasswordMin,
               "password: La contrasena debe tener al menos 8 caracteres")
PasswordIssues(b) ==
    IF "password" \notin b.has THEN <<"password: Required">>
    ELSE Issue(Len(b.password) < PasswordMin,
               "password: La contrasena debe tener al menos 8 caracteres")
         \o Issue(Len(b.password) > PasswordMax,
                  "password: La contrasena no puede exceder 100 caracteres")

\* roll: z.enum(["USER", "ADMIN"]).default("USER")
Rolls == {"USER", "ADMIN"}
RollIssues(b) ==
    Issue("roll" \in b.has /\ b.roll \notin Rolls, "roll: El rol debe ser 'USER' o 'ADMIN'")

normalizeEmail(email) == emailNormalized[email]

LoginSchemaIssues(b) == EmailIssues(b) \o PasswordIssues(b)
LoginSchemaParse(b) ==
    [has |-> {"email", "password"}, email |-> normalizeEmail(b.email),
     password |-> b.password]

RegisterUserSchemaIssues(b) == EmailIssues(b) \o PasswordIssues(b) \o RollIssues(b)
RegisterUserSchemaParse(b) ==
    [has |-> {"email", "password", "roll"}, email |-> normalizeEmail(b.email),
     password |-> b.password,
     roll |-> IF "roll" \in b.has THEN b.roll ELSE "USER"]

\* { ...body, roll: r }
WithRollBodyWins(b, r) == IF "roll" \in b.has THEN b ELSE [b EXCEPT !.has = @ \cup {"roll"}, !.roll = r]
WithRoll(b, r) == [b EXCEPT !.has = @ \cup {"roll"}, !.roll = r]

-----------------------------------------------------------------------------
(***************************************************************************)
(* Errors and the response envelope.                                       *)
(***************************************************************************)
ZodError(issues) == [kind |-> "ZodError", issues |-> issues]

AppError(name, message, statusCode, site) ==
    [kind |-> "AppError", name |-> name, message |-> message,
     statusCode |-> statusCode, stack |-> name \o ": " \o message \o " at " \o site]

AuthenticationError(message, site) == AppError("AuthenticationError", message, 401, site)
NotFoundErrorAs500(message, site) == AppError("NotFoundError", message, 500, site)
NotFoundError(message, site)       == AppError("NotFoundError", message, 404, site)
ConflictError(message, site)       == AppError("ConflictError", message, 409, site)
ValidationError(message, site)     == AppError("ValidationError", message, 400, site)
AuthorizationError(message, site)  == AppError("AuthorizationError", message, 403, site)
InternalError(message, site)       == AppError("InternalError", message, 500, site)

\* an error that is neither a validation-library error nor an AppError
UnknownErrorAsApp(message, site) == AppError("Error", message, 500, site)
UnknownError(message, site) ==
    [kind |-> "Error", message |-> message, stack |-> "Error: " \o message \o " at " \o site]

formatZodError(error) == error.issues

handleApiErrorUnlessProduction(error, env) ==
    IF error.kind = "ZodError"
    THEN [status |-> 400,
          body |-> [success |-> FALSE,
                    error |-> [message |-> "Error de validacion",
                               details |-> formatZodError(error)]]]
    ELSE IF error.kind = "AppError"
    THEN [status |-> error.statusCode,
          body |-> [success |-> FALSE,
                    error |-> IF env # "production"
                              THEN [message |-> error.message, stack |-> error.stack]
                              ELSE [message |-> error.message]]]
    ELSE [status |-> 500,
          body |-> [success |-> FALSE,
                    error |-> IF env # "production"
                              THEN [message |-> "Error interno del servidor",
                                    details |-> <<error.message>>,
                                    stack |-> error.stack]
                              ELSE [message |-> "Error interno del servidor"]]]

handleApiError(error, env) ==
    IF error.kind = "ZodError"
    THEN [status |-> 400,
          body |-> [success |-> FALSE,
                    error |-> [message |-> "Error de validacion",
                               details |-> formatZodError(error)]]]
    ELSE IF error.kind = "AppError"
    THEN [status |-> error.statusCode,
          body |-> [success |-> FALSE,
                    error |-> IF env = "development"
                              THEN [message |-> error.message, stack |-> error.stack]
                              ELSE [message |-> error.message]]]
    ELSE [status |-> 500,
          body |-> [success |-> FALSE,
                    error |-> IF env = "development"
                              THEN [message |-> "Error interno del servidor",
                                    details |-> <<error.message>>,
                                    stack |-> error.stack]
                              ELSE [message |-> "Error interno del servidor"]]]

createSuccessResponse(data, status) ==
    [status |-> status, body |-> [success |-> TRUE, data |-> data]]

\* what the framework answers when a handler lets an exception escape
UnhandledResponse == [status |-> 500, body |-> [unhandled |-> TRUE]]

-----------------------------------------------------------------------------
(***************************************************************************)
(* AuthService.  Each operation yields an outcome: the value returned or   *)
(* the error thrown, the user collection afterwards, and how many reads    *)
(* and writes it issued on the collection.                                 *)
(***************************************************************************)
findUserByEmail(us, email) == {u \in us : u.email = email}

toAuthUser(user) == [id |-> user.id, email |-> user.email, roll |-> user.roll]

Threw(error, us, reads) ==
    [ok |-> FALSE, error |-> error, users |-> us, reads |-> reads, writes |-> 0]

NoUserError      == AuthenticationError("Credenciales invalidas", "auth.service.ts:90")
BadPasswordError == AuthenticationError("Credenciales invalidas", "auth.service.ts:97")
EmailTakenError  == ConflictError("El email ya esta registrado", "auth.service.ts:128")

login(us, credentials) ==
    IF LoginSchemaIssues(credentials) # <<>>
    THEN Threw(ZodError(LoginSchemaIssues(credentials)), us, 0)
    ELSE LET c     == LoginSchemaParse(credentials)
             found == findUserByEmail(us, c.email)
         IN  IF found = {}
             THEN Threw(NoUserError, us, 1)
             ELSE LET user == CHOOSE u \in found : TRUE
                  IN  IF ~ comparePassword(c.password, user.password)
                      THEN Threw(BadPasswordError, us, 1)
                      ELSE [ok |-> TRUE, data |-> toAuthUser(user), users |-> us,
                            reads |-> 1, writes |-> 0]

\* a register that overwrites the record found instead of stopping at it
registerOverwriting(us, nid, userData, salt) ==
    IF RegisterUserSchemaIssues(userData) # <<>>
    THEN Threw(ZodError(RegisterUserSchemaIssues(userData)), us, 0)
    ELSE LET v     == RegisterUserSchemaParse(userData)
             found == findUserByEmail(us, v.email)
             user  == [id |-> ObjectId(nid + 1), email |-> v.email,
                       password |-> hashPassword(v.password, salt), roll |-> v.roll]
         IN  IF found # {}
             THEN [Threw(EmailTakenError, (us \ found) \cup {user}, 1)
                      EXCEPT !.writes = 1]
             ELSE [ok |-> TRUE, data |-> toAuthUser(user), users |-> us \cup {user},
                   reads |-> 1, writes |-> 1]

register(us, nid, userData, salt) ==
    IF RegisterUserSchemaIssues(userData) # <<>>
    THEN Threw(ZodError(RegisterUserSchemaIssues(userData)), us, 0)
    ELSE LET v == RegisterUserSchemaParse(userData)
         IN  IF findUserByEmail(us, v.email) # {}
             THEN Threw(EmailTakenError, us, 1)
             ELSE LET user == [id |-> ObjectId(nid + 1), email |-> v.email,
                               password |-> hashPassword(v.password, salt),
                               roll |-> v.roll]
                  IN  [ok |-> TRUE, data |-> toAuthUser(user), users |-> us \cup {user},
                       reads |-> 1, writes |-> 1]

-----------------------------------------------------------------------------
(***************************************************************************)
(* Request bodies of the auth routes.                                      *)
(***************************************************************************)
RollInputs == {"USER", "ADMIN", "ROOT"}
TooLong    == Repeat("x", PasswordMax + 1)

\* a body that is not JSON: req.json() throws
NotJson == [json |-> FALSE, has |-> {}, email |-> "", password |-> "", roll |-> ""]

AuthBody(has, email, password, roll) ==
    [json |-> TRUE, has |-> has, email |-> email, password |-> password, roll |-> roll]

Credentials(email, password) == AuthBody({"email", "password"}, email, password, "")

\* well-formed credentials: two addresses, one of them also in upper case,
\* and two passwords
GoodCredentials ==
    {Credentials("a@x.io", "secret88"), Credentials("a@x.io", "hunter999"),
     Credentials("A@x.io", "secret88"), Credentials("b@x.io", "secret88")}

\* credentials a schema rejects, bodies that lack a key, and a body that is
\* not JSON
BadCredentials ==
    {Credentials(" a@x.io", "secret88"), Credentials("ax.io", "secret88"),
     Credentials("", "secret88"), Credentials("a@x.io", "short77"),
     Credentials("a@x.io", TooLong),
     AuthBody({"email"}, "a@x.io", "", ""), AuthBody({"password"}, "", "secret88", ""),
     NotJson}

CredentialBodies == GoodCredentials \cup BadCredentials

\* bodies that also carry a role of their own
RegisterBodies ==
    CredentialBodies
    \cup {AuthBody({"email", "password", "roll"}, "b@x.io", "secret88", r) : r \in RollInputs}

JsonSyntaxError == UnknownError("Unexpected token in JSON", "req.json")

Answered(route, impl, req, resp, reads, writes) ==
    [route |-> route, impl |-> impl, req |-> req, status |-> resp.status,
     body |-> resp.body, reads |-> reads, writes |-> writes]

-----------------------------------------------------------------------------
(***************************************************************************)
(* The auth routes built on the service: POST /api/auth, /api/user and     *)
(* /api/admin.                                                             *)
(***************************************************************************)
\* the try block of POST /api/auth: parse, validate, authenticate
AuthOutcome(us, b) ==
    IF ~ b.json THEN Threw(JsonSyntaxError, us, 0)
    ELSE IF LoginSchemaIssues(b) # <<>> THEN Threw(ZodError(LoginSchemaIssues(b)), us, 0)
    ELSE login(us, LoginSchemaParse(b))

\* the try block of POST /api/user and POST /api/admin: parse, force the
\* role, validate, register
RegisterOutcome(us, nid, b, roll, salt) ==
    IF ~ b.json THEN Threw(JsonSyntaxError, us, 0)
    ELSE IF RegisterUserSchemaIssues(WithRoll(b, roll)) # <<>>
    THEN Threw(ZodError(RegisterUserSchemaIssues(WithRoll(b, roll))), us, 0)
    ELSE register(us, nid, RegisterUserSchemaParse(WithRoll(b, roll)), salt)

Respond(o, okStatus, env) ==
    IF o.ok THEN createSuccessResponse(o.data, okStatus) ELSE handleApiError(o.error, env)

PostAuth(b) ==
    LET o    == AuthOutcome(users, b)
        resp == Respond(o, 200, nodeEnv)
    IN  /\ last' = Answered("POST /api/auth", "service", b, resp, o.reads, o.writes)
        /\ UNCHANGED <<authVars, processVars, productVars>>

\* bcrypt draws a salt only when the request gets as far as hashPassword
NoSalt == ""
SaltsDrawn(us, nid, b, roll) ==
    IF RegisterOutcome(us, nid, b, roll, NoSalt).ok THEN Salts ELSE {NoSalt}

PostRegister(route, roll, b, salt) ==
    LET o    == RegisterOutcome(users, nextUserId, b, roll, salt)
        resp == Respond(o, 201, nodeEnv)
    IN  /\ salt \in SaltsDrawn(users, nextUserId, b, roll)
        /\ users' = o.users
        /\ nextUserId' = IF o.ok THEN nextUserId + 1 ELSE nextUserId
        /\ last' = Answered(route, "service", b, resp, o.reads, o.writes)
        /\ created' =
             IF o.ok
             THEN created \cup {[id |-> o.data.id, impl |-> "service", email |-> b.email,
                                 password |-> b.password, answer |-> resp.body]}
             ELSE created
        /\ UNCHANGED <<processVars, productVars>>

PostUser(b, salt)  == PostRegister("POST /api/user", "USER", b, salt)
PostAdmin(b, salt) == PostRegister("POST /api/admin", "ADMIN", b, salt)

-----------------------------------------------------------------------------
(***************************************************************************)
(* The earlier variants of the same routes, which talk to the store        *)
(* directly: no validation, no hashing, no envelope, no try/catch.         *)
(***************************************************************************)
\* prisma.user.create({ data: { email, password, roll } }) on the raw body
LegacyCreateOutcome(us, nid, b, roll) ==
    IF \/ ~ b.json
       \/ "email" \notin b.has
       \/ "password" \notin b.has
       \/ findUserByEmail(us, b.email) # {}
    THEN [ok |-> FALSE, users |-> us]
    ELSE LET user == [id |-> ObjectId(nid + 1), email |-> b.email,
                      password |-> b.password, roll |-> roll]
         IN  [ok |-> TRUE, data |-> user, users |-> us \cup {user}]

LegacyRegister(route, roll, b) ==
    LET o    == LegacyCreateOutcome(users, nextUserId, b, roll)
        resp == IF o.ok THEN [status |-> 200, body |-> o.data] ELSE UnhandledResponse
    IN  /\ users' = o.users
        /\ nextUserId' = IF o.ok THEN nextUserId + 1 ELSE nextUserId
        /\ last' = Answered(route, "legacy", b, resp, 0, 1)
        /\ created' =
             IF o.ok
             THEN created \cup {[id |-> o.data.id, impl |-> "legacy", email |-> b.email,
                                 password |-> b.password, answer |-> resp.body]}
             ELSE created
        /\ UNCHANGED <<processVars, productVars>>

LegacyPostUser(b)  == LegacyRegister("POST /api/user", "USER", b)
LegacyPostAdmin(b) == LegacyRegister("POST /api/admin", "ADMIN", b)

\* findUnique({ where: { email, password, roll } }): a key the body lacks is
\* undefined and takes no part in the filter
LegacyFind(us, b, roll) ==
    {u \in us : /\ u.email = b.email
                /\ "password" \in b.has => u.password = b.password
                /\ u.roll = roll}

LegacyLoginResponse(us, b) ==
    IF ~ b.json \/ "email" \notin b.has THEN UnhandledResponse
    ELSE IF LegacyFind(us, b, "ADMIN") # {} \/ LegacyFind(us, b, "USER") # {}
    THEN [status |-> 200, body |-> [message |-> "Inicio de sesion exitoso"]]
    ELSE [status |-> 401, body |-> [message |-> "Credenciales invalidas"]]

LegacyPostAuth(b) ==
    LET resp == LegacyLoginResponse(users, b)
    IN  /\ last' = Answered("POST /api/auth", "legacy", b, resp,
                            IF ~ b.json THEN 0
                            ELSE IF LegacyFind(users, b, "ADMIN") # {} THEN 1 ELSE 2, 0)
        /\ UNCHANGED <<authVars, processVars, productVars>>

-----------------------------------------------------------------------------
(***************************************************************************)
(* Validation schemas of the product routes.  A product body is a record   *)
(* [json, has, id, name, category, price, status]; "has" lists the keys    *)
(* the JSON object carries.  Unknown keys are stripped by z.object.        *)
(***************************************************************************)
NameMax     == 100
CategoryMax == 50

Statuses == {"Activo", "Inactivo"}

\* the names and categories requests carry, and what the schemas make of them
NameInputs     == {"Widget", " Big  Box ", " Big Box ", " ", Repeat("n", NameMax + 1)}
CategoryInputs == {"Tools", " Toys "}
\* (a name over the maximum is rejected before any transform applies)
NamesInRange    == {n \in NameInputs : Len(n) <= NameMax}
NameStrings     == NamesInRange \cup {trim(n) : n \in NamesInRange}
                                \cup {collapseSpaces(trim(n)) : n \in NamesInRange}
CategoryStrings == CategoryInputs \cup {trim(c) : c \in CategoryInputs}

nameTrimmed     == [n \in NameStrings |-> trim(n)]
nameNormalized  == [n \in NameStrings |-> collapseSpaces(trim(n))]
categoryTrimmed == [c \in CategoryStrings |-> trim(c)]

\* ProductBaseSchema.name: min(1).max(100).trim().transform(collapse whitespace)
createNameUntouched(name) == name
createName(name) == nameNormalized[name]
\* UpdateProductSchema.name: min(1).max(100).trim()
updateName(name) == nameTrimmed[name]
\* category: min(1).max(50).trim(), in both schemas
trimCategory(category) == categoryTrimmed[category]

\* Number(val.toFixed(2)) === val || val.toString().split('.')[1]?.length <= 2,
\* on a price in thousandths
AtMostTwoDecimals(price) == price % 10 = 0

NameIssues(b) ==
    Issue(Len(b.name) < 1, "name: El nombre es obligatorio")
    \o Issue(Len(b.name) > NameMax, "name: El nombre no puede exceder 100 caracteres")

CategoryIssues(b) ==
    Issue(Len(b.category) < 1, "category: La categoria es obligatoria")
    \o Issue(Len(b.category) > CategoryMax,
             "category: La categoria no puede exceder 50 caracteres")

StatusIssues(b) ==
    Issue("status" \in b.has /\ b.status \notin Statuses,
          "status: El estado debe ser 'Activo' o 'Inactivo'")

Required(b, key, issues) ==
    IF key \notin b.has THEN <<key \o ": Required">> ELSE issues

Optional(b, key, issues) ==
    IF key \notin b.has THEN <<>> ELSE issues

CreateProductSchemaIssues(b) ==
    Required(b, "name", NameIssues(b))
    \o Required(b, "category", CategoryIssues(b))
    \o Required(b, "price",
                Issue(b.price <= 0, "price: El precio debe ser mayor a 0")
                \o Issue(~ AtMostTwoDecimals(b.price),
                         "price: El precio no puede tener mas de 2 decimales"))
    \o StatusIssues(b)

\* the validated data: the four fields, normalised, status defaulted
DefaultStatus(b) == IF "status" \in b.has THEN b.status ELSE "Activo"

CreateProductSchemaParse(b) ==
    [json |-> TRUE, has |-> {"name", "category", "price", "status"}, id |-> "",
     name |-> createName(b.name), category |-> trimCategory(b.category),
     price |-> b.price, status |-> DefaultStatus(b)]

\* the ids requests name: those the store generates, a well-formed one it
\* never generates, and one that is not an ObjectId
StoreIds   == {ObjectId(n) : n \in 1..MaxProductIds}
ForeignId  == ObjectId(15)
RequestIds == StoreIds \cup {ForeignId, "nope"}

idShaped == [id \in RequestIds \cup {""} |-> IsObjectId(id)]

IdIssues(b) ==
    Required(b, "id",
             Issue(Len(b.id) < 1, "id: El ID es obligatorio")
             \o Issue(~ idShaped[b.id], "id: ID de MongoDB invalido"))

UpdateProductSchemaIssuesIdOnly(b) == IdIssues(b)
UpdateProductSchemaIssues(b) ==
    IdIssues(b)
    \o Optional(b, "name", NameIssues(b))
    \o Optional(b, "category", CategoryIssues(b))
    \o Optional(b, "price", Issue(b.price <= 0, "price: El precio debe ser mayor a 0"))
    \o Optional(b, "status",
                Issue(b.status \notin Statuses,
                      "status: Invalid enum value. Expected 'Activo' | 'Inactivo', received '"
                      \o b.status \o "'"))

\* the validated data keeps exactly the keys the body carried, among the five
UpdateKeys == {"id", "name", "category", "price", "status"}

\* a schema that lets the keys it does not know through (.passthrough())
UpdateProductSchemaPassthrough(b) ==
    [b EXCEPT !.name     = IF "name" \in b.has THEN updateName(b.name) ELSE "",
              !.category = IF "category" \in b.has THEN trimCategory(b.category) ELSE ""]
UpdateProductSchemaParse(b) ==
    [json |-> TRUE, has |-> b.has \cap UpdateKeys, id |-> b.id,
     name     |-> IF "name" \in b.has THEN updateName(b.name) ELSE "",
     category |-> IF "category" \in b.has THEN trimCategory(b.category) ELSE "",
     price    |-> IF "price" \in b.has THEN b.price ELSE 0,
     status   |-> IF "status" \in b.has THEN b.status ELSE ""]

\* DeleteProductSchema and GetProductByIdSchema: { id }
IdSchemaIssues(b) == IdIssues(b)

IdOnly(id) ==
    [json |-> TRUE, has |-> {"id"}, id |-> id, name |-> "", category |-> "",
     price |-> 0, status |-> ""]

-----------------------------------------------------------------------------
(***************************************************************************)
(* ProductService.  An outcome carries the value returned or the error     *)
(* thrown, the product collection afterwards, and the reads and writes     *)
(* issued on it.                                                           *)
(***************************************************************************)
findProduct(ps, id) == {p \in ps : p.id = id}

ThrewP(error, ps, reads) ==
    [ok |-> FALSE, error |-> error, products |-> ps, reads |-> reads, writes |-> 0]

ProductNotFound(id) ==
    NotFoundError("Producto con ID " \o id \o " no encontrado", "product.service.ts:101")

getProductById(ps, id) ==
    IF IdSchemaIssues(IdOnly(id)) # <<>>
    THEN ThrewP(ZodError(IdSchemaIssues(IdOnly(id))), ps, 0)
    ELSE IF findProduct(ps, id) = {}
    THEN ThrewP(ProductNotFound(id), ps, 1)
    ELSE [ok |-> TRUE, data |-> CHOOSE p \in findProduct(ps, id) : TRUE, products |-> ps,
          reads |-> 1, writes |-> 0]

\* prisma.product.create({ data: { ...validatedData, date: new Date().toISOString() } });
\* the instant is kept as the clock's reading, which orders as its ISO string does
createProduct(ps, nid, now, data) ==
    IF CreateProductSchemaIssues(data) # <<>>
    THEN ThrewP(ZodError(CreateProductSchemaIssues(data)), ps, 0)
    ELSE LET v == CreateProductSchemaParse(data)
             product == [id |-> ObjectId(nid + 1), name |-> v.name,
                         category |-> v.category, price |-> v.price,
                         status |-> v.status, date |-> now]
         IN  [ok |-> TRUE, data |-> product, products |-> ps \cup {product},
              reads |-> 0, writes |-> 1]

\* prisma.product.update({ where: { id }, data: updateData }): the keys of
\* updateData replace the record's, the others stay
applyUpdateAll(p, data) ==
    [p EXCEPT !.name = data.name, !.category = data.category,
              !.price = data.price, !.status = data.status]
applyUpdate(p, data) ==
    [p EXCEPT !.name     = IF "name" \in data.has THEN data.name ELSE @,
              !.category = IF "category" \in data.has THEN data.category ELSE @,
              !.price    = IF "price" \in data.has THEN data.price ELSE @,
              !.status   = IF "status" \in data.has THEN data.status ELSE @,
              !.date     = IF "date" \in data.has THEN data.date ELSE @]

updateProduct(ps, id, data) ==
    LET validationData == [data EXCEPT !.has = @ \cup {"id"}, !.id = id]
    IN  IF UpdateProductSchemaIssues(validationData) # <<>>
        THEN ThrewP(ZodError(UpdateProductSchemaIssues(validationData)), ps, 0)
        ELSE LET found == getProductById(ps, id)
             IN  IF ~ found.ok THEN found
                 ELSE LET updateData == [data EXCEPT !.has = @ \ {"id"}]
                          product    == applyUpdate(found.data, updateData)
                      IN  [ok |-> TRUE, data |-> product,
                           products |-> (ps \ {found.data}) \cup {product},
                           reads |-> 1, writes |-> 1]

\* prisma.product.delete({ where: { id } })
removeNothing(ps, p) == ps
removeProduct(ps, p) == ps \ {p}

\* a delete that goes to the store without looking first
deleteProductUnchecked(ps, id) ==
    IF IdSchemaIssues(IdOnly(id)) # <<>>
    THEN ThrewP(ZodError(IdSchemaIssues(IdOnly(id))), ps, 0)
    ELSE IF findProduct(ps, id) = {}
    THEN [ThrewP(ProductNotFound(id), ps, 0) EXCEPT !.writes = 1]
    ELSE LET p == CHOOSE q \in findProduct(ps, id) : TRUE
         IN  [ok |-> TRUE, data |-> p, products |-> removeProduct(ps, p),
              reads |-> 0, writes |-> 1]
deleteProduct(ps, id) ==
    IF IdSchemaIssues(IdOnly(id)) # <<>>
    THEN ThrewP(ZodError(IdSchemaIssues(IdOnly(id))), ps, 0)
    ELSE LET found == getProductById(ps, id)
         IN  IF ~ found.ok THEN found
             ELSE [ok |-> TRUE, data |-> found.data,
                   products |-> removeProduct(ps, found.data),
                   reads |-> 1, writes |-> 1]

-----------------------------------------------------------------------------
(***************************************************************************)
(* Request bodies of the product routes.                                   *)
(***************************************************************************)
ProductBody(has, id, name, category, price, status) ==
    [json |-> TRUE, has |-> has, id |-> id, name |-> name, category |-> category,
     price |-> price, status |-> status]

NotJsonProduct ==
    [json |-> FALSE, has |-> {}, id |-> "", name |-> "", category |-> "",
     price |-> 0, status |-> ""]

NewProduct(name, category, price) ==
    ProductBody({"name", "category", "price"}, "", name, category, price, "")

NewProductWithStatus(name, category, price, status) ==
    ProductBody({"name", "category", "price", "status"}, "", name, category, price, status)

\* bodies CreateProductSchema accepts: without a status, and with one and
\* with whitespace around and inside the name
GoodNewProducts ==
    {NewProduct("Widget", "Tools", 9990),
     NewProductWithStatus(" Big  Box ", " Toys ", 9990, "Inactivo")}

\* bodies it rejects, a name that is blank once trimmed, and no JSON at all
BadNewProducts ==
    {NewProduct("Widget", "Tools", 1005), NewProduct("Widget", "Tools", 0),
     NewProductWithStatus("Widget", "Tools", 9990, "Borrado"),
     NewProduct(Repeat("n", NameMax + 1), "Tools", 9990),
     NewProduct(" ", "Tools", 9990),
     ProductBody({"category", "price"}, "", "", "Tools", 9990, ""),
     NotJsonProduct}

NewProductBodies == GoodNewProducts \cup BadNewProducts

Change(id, has, name, category, price, status) ==
    ProductBody(has \cup {"id"}, id, name, category, price, status)

GoodChanges(id) ==
    {Change(id, {"price"}, "", "", 1005, ""),
     Change(id, {"name", "category", "status"}, " Big Box ", " Toys ", 0, "Inactivo"),
     Change(id, {}, "", "", 0, "")}

BadChanges(id) ==
    {Change(id, {"price"}, "", "", 0, ""),
     Change(id, {"status"}, "", "", 0, "Borrado"),
     Change(id, {"name"}, " ", "", 0, "")}

ChangeBodies ==
    UNION {GoodChanges(id) : id \in RequestIds}
    \cup BadChanges(ObjectId(1))
    \cup {ProductBody({"price"}, "", "", "", 1005, ""), NotJsonProduct}

IdBodies == {IdOnly(id) : id \in RequestIds} \cup {NotJsonProduct,
              ProductBody({}, "", "", "", 0, "")}

-----------------------------------------------------------------------------
(***************************************************************************)
(* The product routes: POST, PUT and DELETE /api/product, and the          *)
(* service's read by id.                                                   *)
(***************************************************************************)
\* the try blocks of the three handlers
PostProductOutcome(ps, nid, now, b) ==
    IF ~ b.json THEN ThrewP(JsonSyntaxError, ps, 0)
    ELSE IF CreateProductSchemaIssues(b) # <<>>
    THEN ThrewP(ZodError(CreateProductSchemaIssues(b)), ps, 0)
    ELSE createProduct(ps, nid, now, CreateProductSchemaParse(b))

PutProductOutcome(ps, b) ==
    IF ~ b.json THEN ThrewP(JsonSyntaxError, ps, 0)
    ELSE IF UpdateProductSchemaIssues(b) # <<>>
    THEN ThrewP(ZodError(UpdateProductSchemaIssues(b)), ps, 0)
    ELSE LET validatedData == UpdateProductSchemaParse(b)
         IN  updateProduct(ps, validatedData.id,
                           [validatedData EXCEPT !.has = @ \ {"id"}])

DeleteProductOutcome(ps, b) ==
    IF ~ b.json THEN ThrewP(JsonSyntaxError, ps, 0)
    ELSE IF IdSchemaIssues(b) # <<>> THEN ThrewP(ZodError(IdSchemaIssues(b)), ps, 0)
    ELSE deleteProduct(ps, b.id)

PostProduct(b) ==
    LET o    == PostProductOutcome(products, nextProductId, clock, b)
        resp == Respond(o, 201, nodeEnv)
    IN  /\ o.ok => nextProductId < MaxProductIds
        /\ products' = o.products
        /\ nextProductId' = IF o.ok THEN nextProductId + 1 ELSE nextProductId
        /\ last' = Answered("POST /api/product", "service", b, resp, o.reads, o.writes)
        /\ UNCHANGED <<clock, deleted, processVars, authVars>>

PutProduct(b) ==
    LET o    == PutProductOutcome(products, b)
        resp == Respond(o, 200, nodeEnv)
    IN  /\ products' = o.products
        /\ last' = Answered("PUT /api/product", "service", b, resp, o.reads, o.writes)
        /\ UNCHANGED <<nextProductId, clock, deleted, processVars, authVars>>

DeleteProduct(b) ==
    LET o    == DeleteProductOutcome(products, b)
        resp == Respond(o, 200, nodeEnv)
    IN  /\ products' = o.products
        /\ deleted' = IF o.ok THEN deleted \cup {b.id} ELSE deleted
        /\ last' = Answered("DELETE /api/product", "service", b, resp, o.reads, o.writes)
        /\ UNCHANGED <<nextProductId, clock, processVars, authVars>>

\* productService.getProductById, called directly
GetProductById(id) ==
    LET o    == getProductById(products, id)
        resp == Respond(o, 200, nodeEnv)
    IN  /\ last' = Answered("getProductById", "service", IdOnly(id), resp,
                            o.reads, o.writes)
        /\ UNCHANGED <<productVars, processVars, authVars>>

-----------------------------------------------------------------------------
(***************************************************************************)
(* GET /api/product and the passing of time.                               *)
(***************************************************************************)
\* prisma.product.findMany({ orderBy: { date: 'desc' } }): every record once,
\* later dates first; the store fixes no order among records of equal date
ListingsUnordered(ps) ==
    {l \in [1..Cardinality(ps) -> ps] : \A i, j \in DOMAIN l : i # j => l[i] # l[j]}
Listings(ps) ==
    {l \in [1..Cardinality(ps) -> ps] :
        /\ \A i, j \in DOMAIN l : i # j => l[i] # l[j]
        /\ \A i, j \in DOMAIN l : i < j => l[i].date >= l[j].date}

\* an error of the store's driver: the database cannot be reached
StoreUnreachable ==
    UnknownError("Can't reach database server", "prisma.product.findMany")

\* getAllProducts logs and rethrows whatever findMany throws
getAllProducts(ps, listing, reachable) ==
    IF reachable
    THEN [ok |-> TRUE, data |-> listing, products |-> ps, reads |-> 1, writes |-> 0]
    ELSE ThrewP(StoreUnreachable, ps, 1)

NoBody ==
    [json |-> TRUE, has |-> {}, id |-> "", name |-> "", category |-> "",
     price |-> 0, status |-> ""]

GetProducts(listing, reachable) ==
    LET o    == getAllProducts(products, listing, reachable)
        resp == Respond(o, 200, nodeEnv)
    IN  /\ listing \in Listings(products)
        /\ last' = Answered("GET /api/product", "service", NoBody, resp,
                            o.reads, o.writes)
        /\ UNCHANGED <<productVars, processVars, authVars>>

\* the server's clock moves on between two requests
Tick ==
    /\ clock < MaxClock
    /\ clock' = clock + 1
    /\ UNCHANGED <<products, nextProductId, deleted, last, processVars, authVars>>

-----------------------------------------------------------------------------
(***************************************************************************)
(* Work in progress: registrations in flight and the migration script.     *)
(***************************************************************************)
\* Two registrations handled at once.  Each awaits the store twice: at
\* prisma.user.findUnique and at prisma.user.create; between the two the
\* other request may run.
Requests == {"r1", "r2"}

NotInFlight == [pc |-> "idle"]

\* the store holds a unique index on email (findUnique({ where: { email } })
\* needs one) and rejects an insert that would break it
UniqueConstraintFailed ==
    UnknownError("Unique constraint failed on the constraint: User_email_key",
                 "prisma.user.create")

RaceBodies ==
    {Credentials("a@x.io", "secret88"), Credentials("A@x.io", "secret88"),
     Credentials("b@x.io", "secret88"), Credentials(" a@x.io", "secret88")}

RegisterRoutes == {<<"POST /api/user", "USER">>, <<"POST /api/admin", "ADMIN">>}

AnsweredInFlight(route, b, email, resp) ==
    [pc |-> "answered", route |-> route, req |-> b, email |-> email,
     status |-> resp.status, body |-> resp.body]

\* the handler and AuthService.register up to the uniqueness read
RegisterRead(r, route, roll, b) ==
    LET issues == RegisterUserSchemaIssues(WithRoll(b, roll))
        v      == RegisterUserSchemaParse(WithRoll(b, roll))
    IN  /\ inflight[r].pc = "idle"
        /\ IF ~ b.json \/ issues # <<>>
           THEN LET resp == handleApiError(IF b.json THEN ZodError(issues)
                                           ELSE JsonSyntaxError, nodeEnv)
                IN  /\ inflight' = [inflight EXCEPT
                                       ![r] = AnsweredInFlight(route, b, "", resp)]
                    /\ last' = Answered(route, "service", b, resp, 0, 0)
           ELSE /\ inflight' = [inflight EXCEPT ![r] =
                                  [pc |-> "checked", route |-> route, req |-> b,
                                   data |-> v,
                                   existingUser |-> findUserByEmail(users, v.email) # {}]]
                /\ UNCHANGED last
        /\ UNCHANGED <<authVars, productVars, nodeEnv, migration, clientVars>>

\* AuthService.register from the uniqueness check on, and the handler's answer
RegisterWrite(r, salt) ==
    LET f    == inflight[r]
        user == [id |-> ObjectId(nextUserId + 1), email |-> f.data.email,
                 password |-> hashPassword(f.data.password, salt), roll |-> f.data.roll]
        o    == IF f.existingUser THEN Threw(EmailTakenError, users, 1)
                ELSE IF findUserByEmail(users, f.data.email) # {}
                THEN Threw(UniqueConstraintFailed, users, 1)
                ELSE [ok |-> TRUE, data |-> toAuthUser(user), users |-> users \cup {user},
                      reads |-> 1, writes |-> 1]
        resp == Respond(o, 201, nodeEnv)
    IN  /\ f.pc = "checked"
        /\ salt \in (IF f.existingUser THEN {NoSalt} ELSE Salts)
        /\ users' = o.users
        /\ nextUserId' = IF o.ok THEN nextUserId + 1 ELSE nextUserId
        /\ created' =
             IF o.ok
             THEN created \cup {[id |-> o.data.id, impl |-> "service",
                                 email |-> f.req.email, password |-> f.req.password,
                                 answer |-> resp.body]}
             ELSE created
        /\ inflight' = [inflight EXCEPT
                          ![r] = AnsweredInFlight(f.route, f.req, f.data.email, resp)]
        /\ last' = Answered(f.route, "service", f.req, resp, o.reads, o.writes)
        /\ UNCHANGED <<productVars, nodeEnv, migration, clientVars>>

\* The migration script: it reads every user once, then visits the records
\* it read one by one, in the order the store returned them.
NotMigrating ==
    [pc |-> "idle", total |-> 0, migratedCount |-> 0, alreadyHashedCount |-> 0,
     errorCount |-> 0, todo |-> {}]

\* password.startsWith('$2a$') || startsWith('$2b$') || startsWith('$2y$')
isAlreadyHashedOnly2a(password) == startsWith(password, "$2a$")
isAlreadyHashed(password) ==
    \/ startsWith(password, "$2a$")
    \/ startsWith(password, "$2b$")
    \/ startsWith(password, "$2y$")

\* prisma.user.update({ where: { id: user.id }, data: { password: hashedPassword } })
updatePasswordAndRoll(us, id, password) ==
    {IF u.id = id THEN [u EXCEPT !.password = password, !.roll = "USER"] ELSE u : u \in us}
updatePassword(us, id, password) ==
    {IF u.id = id THEN [u EXCEPT !.password = password] ELSE u : u \in us}

\* const users = await prisma.user.findMany(); nothing to do when there are none
MigrateBegin ==
    /\ migration.pc \in {"idle", "done"}
    /\ migration' =
         IF users = {} THEN [NotMigrating EXCEPT !.pc = "done"]
         ELSE [NotMigrating EXCEPT !.pc = "running", !.total = Cardinality(users),
                                   !.todo = users]
    /\ UNCHANGED <<authVars, productVars, nodeEnv, inflight, last, clientVars>>

\* one turn of the loop, on a record of the snapshot
MigrateStep(user, salt) ==
    /\ migration.pc = "running" /\ user \in migration.todo
    /\ IF isAlreadyHashed(user.password)
       THEN /\ salt = NoSalt
            /\ migration' = [migration EXCEPT !.todo = @ \ {user},
                                               !.alreadyHashedCount = @ + 1]
            /\ UNCHANGED users
       ELSE /\ salt \in Salts
            /\ users' = updatePassword(users, user.id, bcryptHashWith(user.password, salt))
            /\ migration' = [migration EXCEPT !.todo = @ \ {user},
                                               !.migratedCount = @ + 1]
    /\ UNCHANGED <<nextUserId, created, productVars, nodeEnv, inflight, last, clientVars>>

\* the loop is over: the summary is printed and the client disconnected
MigrateEnd ==
    /\ migration.pc = "running" /\ migration.todo = {}
    /\ migration' = [migration EXCEPT !.pc = "done"]
    /\ UNCHANGED <<authVars, productVars, nodeEnv, inflight, last, clientVars>>

-----------------------------------------------------------------------------
(***************************************************************************)
(* The persistence handles of the process: the mongoose connection cached  *)
(* by connectToDatabase and the PrismaClient exported by lib/prisma.       *)
(* A handle is the number of the connect or construction that made it, 0   *)
(* stands for null.  JavaScript runs a call up to its await in one piece;  *)
(* what is interleaved is the pieces between awaits.                       *)
(***************************************************************************)
Callers    == {"c1", "c2", "c3"}
MaxCalls   == 4
MaxReloads == 2

NotCalling == [pc |-> "idle", promise |-> 0, conn |-> 0]

NotConnected(uri) ==
    [mongoUri |-> uri,
     cached   |-> [conn |-> 0, promise |-> 0],
     connects |-> 0, resolved |-> {}, rejected |-> {},
     calls    |-> 0, callers |-> [c \in Callers |-> NotCalling],
     global   |-> 0, exported |-> 0, clients |-> 0, evaluations |-> 0,
     imported |-> {}]

\* if (!cached.promise) cached.promise = mongoose.connect(...)
forgetPromise(cached, promise) == cached
rememberPromise(cached, promise) == [cached EXCEPT !.promise = promise]

\* connectToDatabase up to its await: the cached connection, the missing
\* MONGO_URI, the promise made or found
ConnectCall(c) ==
    LET k == connection IN
    /\ k.callers[c].pc # "awaiting"
    /\ k.calls < MaxCalls
    /\ connection' =
          IF k.cached.conn # 0
          THEN [k EXCEPT !.calls = @ + 1,
                         !.callers[c] = [pc |-> "returned", promise |-> 0,
                                         conn |-> k.cached.conn]]
          ELSE IF ~ k.mongoUri
          THEN [k EXCEPT !.calls = @ + 1,
                         !.callers[c] = [pc |-> "threw", promise |-> 0, conn |-> 0]]
          ELSE IF k.cached.promise = 0
          THEN [k EXCEPT !.calls = @ + 1,
                         !.connects = @ + 1,
                         !.cached = rememberPromise(@, k.connects + 1),
                         !.callers[c] = [pc |-> "awaiting", promise |-> k.connects + 1,
                                         conn |-> 0]]
          ELSE [k EXCEPT !.calls = @ + 1,
                         !.callers[c] = [pc |-> "awaiting", promise |-> k.cached.promise,
                                         conn |-> 0]]
    /\ UNCHANGED <<authVars, productVars, last, nodeEnv, inflight, migration, cart, hook>>

\* mongoose.connect settles: the connection is made, or the server refuses
ConnectSettle(promise, made) ==
    LET k == connection IN
    /\ promise \in 1..k.connects
    /\ promise \notin k.resolved \cup k.rejected
    /\ connection' = IF made THEN [k EXCEPT !.resolved = @ \cup {promise}]
                              ELSE [k EXCEPT !.rejected = @ \cup {promise}]
    /\ UNCHANGED <<authVars, productVars, last, nodeEnv, inflight, migration, cart, hook>>

\* cached.conn = await cached.promise; return cached.conn;
ConnectResume(c) ==
    LET k == connection
        promise == k.callers[c].promise
    IN  /\ k.callers[c].pc = "awaiting"
        /\ promise \in k.resolved \cup k.rejected
        /\ connection' =
              IF promise \in k.resolved
              THEN [k EXCEPT !.cached.conn = promise,
                             !.callers[c] = [pc |-> "returned", promise |-> promise,
                                             conn |-> promise]]
              ELSE [k EXCEPT !.callers[c] = [pc |-> "threw", promise |-> promise,
                                             conn |-> 0]]
        /\ UNCHANGED <<authVars, productVars, last, nodeEnv, inflight, migration, cart, hook>>

\* lib/prisma evaluated: once when the process first imports it, and again
\* on a hot reload, which a production process does not have
\*   const prisma = globalForPrisma.prisma || new PrismaClient()
\*   if (process.env.NODE_ENV !== 'production') globalForPrisma.prisma = prisma
EvaluatePrismaModule ==
    LET k == connection
        made   == k.global = 0
        prisma == IF made THEN k.clients + 1 ELSE k.global
    IN  /\ k.evaluations < MaxReloads
        /\ k.evaluations = 0 \/ nodeEnv # "production"
        /\ connection' = [k EXCEPT !.evaluations = @ + 1,
                                   !.clients = IF made THEN @ + 1 ELSE @,
                                   !.exported = prisma,
                                   !.global = IF nodeEnv # "production" THEN prisma ELSE @]
        /\ UNCHANGED <<authVars, productVars, last, nodeEnv, inflight, migration, cart, hook>>

\* import prisma from '@/lib/prisma': a service takes the exported client
ImportPrisma ==
    LET k == connection IN
    /\ k.exported # 0
    /\ k.exported \notin k.imported
    /\ connection' = [k EXCEPT !.imported = @ \cup {k.exported}]
    /\ UNCHANGED <<authVars, productVars, last, nodeEnv, inflight, migration, cart, hook>>

-----------------------------------------------------------------------------
(***************************************************************************)
(* The sales page: the cart of line items.                                 *)
(***************************************************************************)
MaxItems    == 2    \* how many line items are ever added
MaxQuantity == 3    \* how far the + button of a line item is pressed
MaxPending  == 1    \* how many deferred removals wait at once

\* a JavaScript number: an integer, or NaN
JSNumber(n) == [nan |-> FALSE, n |-> n]
NaN         == [nan |-> TRUE, n |-> 0]
isNaN(x)    == x.nan

DigitValue(c) == (CHOOSE i \in 1..Len(Digits) : CharAt(Digits, i) = c) - 1

RECURSIVE DigitsPrefix(_)
DigitsPrefix(s) ==
    IF s # "" /\ IsDigit(CharAt(s, 1))
    THEN CharAt(s, 1) \o DigitsPrefix(SubSeq(s, 2, Len(s)))
    ELSE ""

RECURSIVE DecimalValue(_)
DecimalValue(ds) ==
    IF ds = "" THEN 0
    ELSE 10 * DecimalValue(SubSeq(ds, 1, Len(ds) - 1)) + DigitValue(CharAt(ds, Len(ds)))

\* Number.parseInt(string): leading whitespace skipped, an optional sign, the
\* longest run of decimal digits; NaN when there is none
parseInt(str) ==
    LET t      == trimStart(str)
        signed == t # "" /\ CharAt(t, 1) \in {"-", "+"}
        sign   == IF t # "" /\ CharAt(t, 1) = "-" THEN -1 ELSE 1
        ds     == DigitsPrefix(IF signed THEN SubSeq(t, 2, Len(t)) ELSE t)
    IN  IF ds = "" THEN NaN ELSE JSNumber(sign * DecimalValue(ds))

\* what can stand in the quantity field
QuantityTexts == {"1", "2", "0", "-1", "", "2.5", "abc"}
parsedQuantity == [t \in QuantityTexts |-> parseInt(t)]

\* product.price * qty
times(price, qty) == IF isNaN(qty) THEN NaN ELSE JSNumber(price * qty.n)

\* the products offered to the page
CartProducts ==
    {[id |-> ObjectId(1), name |-> "Widget", price |-> 9990],
     [id |-> ObjectId(2), name |-> "Big Box", price |-> 500]}
NoProduct == [id |-> "", name |-> "", price |-> 0]

\* useState([]), useState("1"), useState(null); no removal is pending.
\* nextId stands for Date.now(): two clicks are at least a millisecond apart
EmptyCart ==
    [items |-> <<>>, quantity |-> "1", removingItemId |-> "", timers |-> {},
     nextId |-> 0, selectedProduct |-> NoProduct]

SaleItem(id, product, qty) ==
    [id |-> id, productId |-> product.id, name |-> product.name,
     price |-> product.price, quantity |-> qty, total |-> times(product.price, qty)]

ItemIds(items) == {items[i].id : i \in 1..Len(items)}

\* onChange={(e) => setQuantity(e.target.value)}
TypeQuantity(text) ==
    /\ cart' = [cart EXCEPT !.quantity = text]
    /\ UNCHANGED <<authVars, productVars, last, nodeEnv, inflight, migration, connection, hook>>

addProductToSale(c, product) ==
    LET qty == parsedQuantity[c.quantity]
    IN  IF isNaN(qty) \/ qty.n <= 0 THEN c
        ELSE [c EXCEPT !.items = Append(@, SaleItem(c.nextId + 1, product, qty)),
                       !.quantity = "1", !.nextId = @ + 1]

AddProductToSale(product) ==
    /\ cart.nextId < MaxItems
    /\ cart' = addProductToSale(cart, product)
    /\ UNCHANGED <<authVars, productVars, last, nodeEnv, inflight, migration, connection, hook>>

\* Math.max(1, item.quantity + delta)
max(a, b) == IF a >= b THEN a ELSE b

updateQuantity(items, id, delta) ==
    [i \in 1..Len(items) |->
        IF items[i].id = id
        THEN LET newQuantity == JSNumber(max(1, items[i].quantity.n + delta))
             IN  [items[i] EXCEPT !.quantity = newQuantity,
                                  !.total = times(items[i].price, newQuantity)]
        ELSE items[i]]

UpdateQuantity(id, delta) ==
    /\ id \in ItemIds(cart.items)
    /\ \A i \in 1..Len(cart.items) :
          cart.items[i].id = id =>
              ~ isNaN(cart.items[i].quantity) /\ cart.items[i].quantity.n + delta <= MaxQuantity
    /\ cart' = [cart EXCEPT !.items = updateQuantity(@, id, delta)]
    /\ UNCHANGED <<authVars, productVars, last, nodeEnv, inflight, migration, connection, hook>>

\* items.filter((item) => item.id !== id)
without(items, id) == SelectSeq(items, LAMBDA item : item.id # id)

\* removeItem(id): the row is marked and the removal deferred by 300 ms; the
\* deferred function holds the items of the render it was made in
RemoveItem(id) ==
    /\ id \in ItemIds(cart.items)
    /\ Cardinality(cart.timers) < MaxPending
    /\ cart' = [cart EXCEPT !.removingItemId = id,
                            !.timers = @ \cup {[id |-> id, items |-> cart.items]}]
    /\ UNCHANGED <<authVars, productVars, last, nodeEnv, inflight, migration, connection, hook>>

\* the deferred removal filters the items its closure captured
removalOfCaptured(c, timer) == without(timer.items, timer.id)

RemovalTimeout(timer) ==
    /\ timer \in cart.timers
    /\ cart' = [cart EXCEPT !.items = removalOfCaptured(cart, timer),
                            !.removingItemId = "",
                            !.timers = @ \ {timer}]
    /\ UNCHANGED <<authVars, productVars, last, nodeEnv, inflight, migration, connection, hook>>

\* the first version of the page: a product is selected, then added with
\* the quantity as parsed; a removal takes effect at once
HandleProductSelect(product) ==
    /\ cart' = [cart EXCEPT !.selectedProduct = product]
    /\ UNCHANGED <<authVars, productVars, last, nodeEnv, inflight, migration, connection, hook>>

addItem(c) ==
    IF c.selectedProduct = NoProduct \/ c.quantity = "" THEN c
    ELSE [c EXCEPT !.items = Append(@, SaleItem(c.nextId + 1, c.selectedProduct,
                                                parsedQuantity[c.quantity])),
                   !.selectedProduct = NoProduct,
                   !.quantity = "1", !.nextId = @ + 1]

AddItem ==
    /\ cart.nextId < MaxItems
    /\ cart' = addItem(cart)
    /\ UNCHANGED <<authVars, productVars, last, nodeEnv, inflight, migration, connection, hook>>

LegacyRemoveItem(id) ==
    /\ id \in ItemIds(cart.items)
    /\ cart' = [cart EXCEPT !.items = without(@, id)]
    /\ UNCHANGED <<authVars, productVars, last, nodeEnv, inflight, migration, connection, hook>>

-----------------------------------------------------------------------------
(***************************************************************************)
(* useProducts: the product list of a client.                              *)
(***************************************************************************)
\* useState([]), useState(true), useState(null)
Mounting == [products |-> <<>>, loading |-> TRUE, error |-> ""]

\* response.ok: a status from 200 to 299
ok(resp) == resp.status >= 200 /\ resp.status <= 299

\* the catch block: setError(err.message); the list is left alone
hookFailed(h, resp) == [h EXCEPT !.error = resp.body.error.message]

\* setProducts(data.data); finally setLoading(false)
fetchProducts(h, resp) ==
    IF ok(resp) THEN [products |-> resp.body.data, loading |-> FALSE, error |-> ""]
    ELSE [hookFailed(h, resp) EXCEPT !.loading = FALSE]

\* setProducts(prev => [data.data, ...prev])
hookCreatedLast(prev, data) == Append(prev, data)
hookCreated(prev, data) == <<data>> \o prev

\* setProducts(prev => prev.map(p => p.id === id ? data.data : p))
hookUpdated(prev, id, data) ==
    [i \in 1..Len(prev) |-> IF prev[i].id = id THEN data ELSE prev[i]]

\* setProducts(prev => prev.filter(p => p.id !== id))
hookDeleted(prev, id) == SelectSeq(prev, LAMBDA p : p.id # id)

\* an operation of the hook is the request, the handler answering it and the
\* state set from the answer; the operations of one client follow one another
HookFetch(listing, reachable) ==
    LET o    == getAllProducts(products, listing, reachable)
        resp == Respond(o, 200, nodeEnv)
    IN  /\ listing \in Listings(products)
        /\ hook' = fetchProducts(hook, resp)
        /\ last' = Answered("GET /api/product", "useProducts", NoBody, resp,
                            o.reads, o.writes)
        /\ UNCHANGED <<productVars, authVars, nodeEnv, inflight, migration,
                       connection, cart>>

HookCreate(b) ==
    LET o    == PostProductOutcome(products, nextProductId, clock, b)
        resp == Respond(o, 201, nodeEnv)
    IN  /\ o.ok => nextProductId < MaxProductIds
        /\ products' = o.products
        /\ nextProductId' = IF o.ok THEN nextProductId + 1 ELSE nextProductId
        /\ hook' = IF ok(resp)
                   THEN [hook EXCEPT !.error = "",
                                     !.products = hookCreated(@, resp.body.data)]
                   ELSE hookFailed(hook, resp)
        /\ last' = Answered("POST /api/product", "useProducts", b, resp,
                            o.reads, o.writes)
        /\ UNCHANGED <<clock, deleted, authVars, nodeEnv, inflight, migration,
                       connection, cart>>

HookUpdate(b) ==
    LET o    == PutProductOutcome(products, b)
        resp == Respond(o, 200, nodeEnv)
    IN  /\ products' = o.products
        /\ hook' = IF ok(resp)
                   THEN [hook EXCEPT !.error = "",
                                     !.products = hookUpdated(@, b.id, resp.body.data)]
                   ELSE hookFailed(hook, resp)
        /\ last' = Answered("PUT /api/product", "useProducts", b, resp,
                            o.reads, o.writes)
        /\ UNCHANGED <<nextProductId, clock, deleted, authVars, nodeEnv, inflight,
                       migration, connection, cart>>

HookDelete(b) ==
    LET o    == DeleteProductOutcome(products, b)
        resp == Respond(o, 200, nodeEnv)
    IN  /\ products' = o.products
        /\ deleted' = IF o.ok THEN deleted \cup {b.id} ELSE deleted
        /\ hook' = IF ok(resp)
                   THEN [hook EXCEPT !.error = "", !.products = hookDeleted(@, b.id)]
                   ELSE hookFailed(hook, resp)
        /\ last' = Answered("DELETE /api/product", "useProducts", b, resp,
                            o.reads, o.writes)
        /\ UNCHANGED <<nextProductId, clock, authVars, nodeEnv, inflight, migration,
                       connection, cart>>

\* a product the collection holds before the page is mounted
Seed(b) == hook = Mounting /\ PostProduct(b)

-----------------------------------------------------------------------------
NoRequest == [route |-> "none", impl |-> "none", req |-> NotJson, status |-> 0,
              body |-> [unhandled |-> FALSE], reads |-> 0, writes |-> 0]

InitWith(instants, envs, uris) ==
    /\ users = {}
    /\ products = {}
    /\ nextUserId = 0
    /\ nextProductId = 0
    /\ clock \in instants
    /\ nodeEnv \in envs
    /\ last = NoRequest
    /\ created = {}
    /\ deleted = {}
    /\ inflight = [r \in Requests |-> NotInFlight]
    /\ migration = NotMigrating
    /\ connection \in {NotConnected(uri) : uri \in uris}
    /\ cart = EmptyCart
    /\ hook = Mounting

\* a process whose MONGO_URI is set
InitIn(instants, envs) == InitWith(instants, envs, {TRUE})

InitAt(instants) == InitIn(instants, {"development", "production"})

Init == InitAt({0})

AuthNext ==
    \/ \E b \in CredentialBodies : PostAuth(b)
    \/ \E b \in RegisterBodies, salt \in Salts \cup {NoSalt} : PostUser(b, salt)
    \/ \E b \in RegisterBodies, salt \in Salts \cup {NoSalt} : PostAdmin(b, salt)

AuthSpec == Init /\ [][AuthNext]_vars

\* the earlier routes, and the login of today on the records they leave
LegacyBodies ==
    {Credentials("a@x.io", "secret88"), Credentials("A@x.io", "hunter999"),
     AuthBody({"email"}, "a@x.io", "", ""), NotJson}

LegacyNext ==
    \/ \E b \in LegacyBodies : LegacyPostUser(b)
    \/ \E b \in LegacyBodies : LegacyPostAdmin(b)
    \/ \E b \in LegacyBodies : LegacyPostAuth(b)
    \/ \E b \in CredentialBodies : PostAuth(b)

LegacySpec == Init /\ [][LegacyNext]_vars

\* the product routes, on a server started at any instant up to MaxClock
ProductInit == InitAt(0..MaxClock)

ProductNext ==
    \/ \E b \in NewProductBodies : PostProduct(b)
    \/ \E b \in ChangeBodies : PutProduct(b)
    \/ \E b \in IdBodies : DeleteProduct(b)
    \/ \E id \in RequestIds : GetProductById(id)

ProductSpec == ProductInit /\ [][ProductNext]_vars

\* the catalogue over time: products created at the same and at different
\* instants, listed, re-priced and deleted
\* a body that also carries a date of its own
WithDate(b, date) ==
    [json |-> b.json, has |-> b.has \cup {"date"}, id |-> b.id, name |-> b.name,
     category |-> b.category, price |-> b.price, status |-> b.status, date |-> date]

ListedProducts ==
    {NewProduct("Widget", "Tools", 9990), NewProduct("Widget", "Tools", 0),
     WithDate(ProductBody({"id", "name", "category", "price"}, ForeignId,
                          "Widget", "Tools", 500, ""), 7)}

\* a new price for a product of the store, and the deletion of one
Repricings ==
    {Change(id, {"price"}, "", "", 1005, "") : id \in StoreIds}
    \cup {WithDate(Change(id, {"price"}, "", "", 500, ""), 7) : id \in StoreIds}
Removals   == {IdOnly(id) : id \in StoreIds}

ListNext ==
    \/ Tick
    \/ \E b \in ListedProducts : PostProduct(b)
    \/ \E l \in Listings(products) : \E reachable \in BOOLEAN : GetProducts(l, reachable)
    \/ \E b \in Repricings : PutProduct(b)
    \/ \E b \in Removals : DeleteProduct(b)

ListSpec == Init /\ [][ListNext]_vars

-----------------------------------------------------------------------------
(***************************************************************************)
(* handleApiError on its own: every error the handlers can catch, in every *)
(* mode the process can run in.                                            *)
(***************************************************************************)
\* NODE_ENV as the runtime may set it, the empty string standing for unset
NodeEnvs == {"development", "production", "test", ""}

Thrown(issues) == IF issues = <<>> THEN {} ELSE {ZodError(issues)}

ValidationErrors ==
    UNION {Thrown(LoginSchemaIssues(b)) \cup Thrown(RegisterUserSchemaIssues(b))
              : b \in RegisterBodies \ {NotJson}}
    \cup UNION {Thrown(CreateProductSchemaIssues(b)) : b \in NewProductBodies \ {NotJsonProduct}}
    \cup UNION {Thrown(UpdateProductSchemaIssues(b)) : b \in ChangeBodies \ {NotJsonProduct}}
    \cup UNION {Thrown(IdSchemaIssues(b)) : b \in IdBodies \ {NotJsonProduct}}

ApplicationErrors ==
    {NoUserError, BadPasswordError, EmailTakenError}
    \cup {ProductNotFound(id) : id \in StoreIds \cup {ForeignId}}
    \cup {ValidationError("Error de validacion", "caller"),
          AuthorizationError("No tienes permisos para realizar esta accion", "caller"),
          InternalError("Error interno del servidor", "caller")}

\* errors of the store's driver
RecordToUpdateNotFound ==
    UnknownError("Record to update not found", "prisma.product.update")

RecordToDeleteNotFound ==
    UnknownError("Record to delete does not exist", "prisma.product.delete")

UnexpectedErrors ==
    {JsonSyntaxError, StoreUnreachable, UniqueConstraintFailed, RecordToUpdateNotFound,
     RecordToDeleteNotFound}

CaughtErrors == ValidationErrors \cup ApplicationErrors \cup UnexpectedErrors

HandleApiError(error) ==
    /\ last' = Answered("handleApiError", "service", error,
                        handleApiError(error, nodeEnv), 0, 0)
    /\ UNCHANGED <<authVars, productVars, processVars>>

ErrorInit == InitIn({0}, NodeEnvs)

ErrorNext ==
    \/ \E e \in ValidationErrors : HandleApiError(e)
    \/ \E e \in ApplicationErrors : HandleApiError(e)
    \/ \E e \in UnexpectedErrors : HandleApiError(e)

ErrorSpec == ErrorInit /\ [][ErrorNext]_vars

\* Two deletions handled at once.  Each awaits the store twice: at the
\* findUnique of getProductById and at prisma.product.delete; between the two
\* the other request may run.
\* the handler and ProductService.deleteProduct up to the existence read
DeleteRead(r, b) ==
    LET o == IF ~ b.json THEN ThrewP(JsonSyntaxError, products, 0)
             ELSE IF IdSchemaIssues(b) # <<>>
             THEN ThrewP(ZodError(IdSchemaIssues(b)), products, 0)
             ELSE getProductById(products, b.id)
    IN  /\ inflight[r].pc = "idle"
        /\ IF o.ok
           THEN /\ inflight' = [inflight EXCEPT
                                   ![r] = [pc |-> "found", route |-> "DELETE /api/product",
                                           req |-> b]]
                /\ UNCHANGED last
           ELSE LET resp == handleApiError(o.error, nodeEnv)
                IN  /\ inflight' = [inflight EXCEPT
                                       ![r] = AnsweredInFlight("DELETE /api/product",
                                                               b, "", resp)]
                    /\ last' = Answered("DELETE /api/product", "service", b, resp,
                                        o.reads, 0)
        /\ UNCHANGED <<authVars, productVars, nodeEnv, migration, clientVars>>

\* prisma.product.delete({ where: { id } }): the record as it is now is
\* removed and returned; the driver throws when there is none
prismaDelete(ps, id) ==
    IF findProduct(ps, id) = {}
    THEN [ThrewP(RecordToDeleteNotFound, ps, 1) EXCEPT !.writes = 1]
    ELSE LET p == CHOOSE q \in findProduct(ps, id) : TRUE
         IN  [ok |-> TRUE, data |-> p, products |-> removeProduct(ps, p),
              reads |-> 1, writes |-> 1]

DeleteWrite(r) ==
    LET f    == inflight[r]
        o    == prismaDelete(products, f.req.id)
        resp == Respond(o, 200, nodeEnv)
    IN  /\ f.pc = "found"
        /\ products' = o.products
        /\ deleted' = IF o.ok THEN deleted \cup {f.req.id} ELSE deleted
        /\ inflight' = [inflight EXCEPT ![r] = AnsweredInFlight(f.route, f.req, "", resp)]
        /\ last' = Answered(f.route, "service", f.req, resp, o.reads, o.writes)
        /\ UNCHANGED <<nextProductId, clock, authVars, nodeEnv, migration, clientVars>>

\* two registrations, their reads and writes interleaved in every order
RaceNext ==
    \/ \E r \in Requests, route \in RegisterRoutes, b \in RaceBodies :
          RegisterRead(r, route[1], route[2], b)
    \/ \E r \in Requests, salt \in Salts \cup {NoSalt} : RegisterWrite(r, salt)

RaceSpec == Init /\ [][RaceNext]_vars

\* products created, and two deletions, their reads and writes interleaved
\* in every order
DeleteRaceBodies == Removals \cup {IdOnly(ForeignId), IdOnly("nope")}

DeleteRaceNext ==
    \/ \E b \in GoodNewProducts : PostProduct(b)
    \/ \E r \in Requests, b \in DeleteRaceBodies : DeleteRead(r, b)
    \/ \E r \in Requests : DeleteWrite(r)

DeleteRaceSpec == Init /\ [][DeleteRaceNext]_vars

\* users registered by the first-version route and by the service, the
\* migration script run over them, and logins before, during and after
MigrationBodies ==
    {Credentials("a@x.io", "secret88"), Credentials("A@x.io", "$2b$money")}

MigrationLogins ==
    {Credentials("a@x.io", "secret88"), Credentials("b@x.io", "secret88")}

\* an administrator registered through the service, its password hashed
ServiceAdmins == {Credentials("b@x.io", "secret88")}

MigrationNext ==
    \/ \E b \in MigrationBodies : LegacyPostUser(b)
    \/ \E b \in MigrationBodies : LegacyPostAdmin(b)
    \/ \E b \in ServiceAdmins, salt \in Salts : PostAdmin(b, salt)
    \/ \E b \in MigrationLogins : PostAuth(b)
    \/ MigrateBegin
    \/ \E u \in migration.todo, salt \in Salts \cup {NoSalt} : MigrateStep(u, salt)
    \/ MigrateEnd

MigrationSpec == Init /\ [][MigrationNext]_vars

\* a process with or without MONGO_URI, its callers of connectToDatabase and
\* its evaluations of lib/prisma
ConnectionInit == InitWith({0}, {"development", "production"}, BOOLEAN)

ConnectionNext ==
    \/ \E c \in Callers : ConnectCall(c)
    \/ \E promise \in 1..MaxCalls, made \in BOOLEAN : ConnectSettle(promise, made)
    \/ \E c \in Callers : ConnectResume(c)
    \/ EvaluatePrismaModule
    \/ ImportPrisma

ConnectionSpec == ConnectionInit /\ [][ConnectionNext]_vars

\* one client of the product routes: the collection as it finds it, its
\* fetches, creations, updates and deletions, accepted and rejected
HookNewProducts == {NewProduct("Widget", "Tools", 9990), NewProduct("Widget", "Tools", 0)}
HookChanges ==
    {Change(id, {"price"}, "", "", 500, "") : id \in StoreIds \cup {ForeignId}}
    \cup {Change(ObjectId(1), {"price"}, "", "", 0, "")}
HookRemovals == {IdOnly(id) : id \in StoreIds \cup {ForeignId}}

HookNext ==
    \/ Tick
    \/ \E b \in GoodNewProducts : Seed(b)
    \/ \E l \in Listings(products) : \E reachable \in BOOLEAN : HookFetch(l, reachable)
    \/ \E b \in HookNewProducts : HookCreate(b)
    \/ \E b \in HookChanges : HookUpdate(b)
    \/ \E b \in HookRemovals : HookDelete(b)

HookSpec == Init /\ [][HookNext]_vars

\* the sales page of today
Deltas == {-1, 1}
CartNext ==
    \/ \E text \in QuantityTexts : TypeQuantity(text)
    \/ \E product \in CartProducts : AddProductToSale(product)
    \/ \E id \in 1..MaxItems, delta \in Deltas : UpdateQuantity(id, delta)
    \/ \E id \in 1..MaxItems : RemoveItem(id)
    \/ \E timer \in cart.timers : RemovalTimeout(timer)

CartSpec == Init /\ [][CartNext]_vars

\* the sales page as first written
LegacyCartNext ==
    \/ \E text \in QuantityTexts : TypeQuantity(text)
    \/ \E product \in CartProducts : HandleProductSelect(product)
    \/ AddItem
    \/ \E id \in 1..MaxItems : LegacyRemoveItem(id)

LegacyCartSpec == Init /\ [][LegacyCartNext]_vars

-----------------------------------------------------------------------------
(***************************************************************************)
(* Properties of the auth routes.                                          *)
(***************************************************************************)
ServiceLogin(l)    == l.route = "POST /api/auth" /\ l.impl = "service"
ServiceRegister(l) == l.route \in {"POST /api/user", "POST /api/admin"} /\ l.impl = "service"

HasCredentials(b) == b.json /\ {"email", "password"} \subseteq b.has

\* the shape the login and registration schemas ask for
ShapeOk(b) ==
    /\ HasCredentials(b)
    /\ b.email # "" /\ isEmail(b.email)
    /\ Len(b.password) >= PasswordMin /\ Len(b.password) <= PasswordMax

UnknownEmail(us, b) ==
    ShapeOk(b) /\ ~ \E u \in us : u.email = trim(toLowerCase(b.email))

WrongPassword(us, b) ==
    ShapeOk(b) /\ \E u \in us : /\ u.email = trim(toLowerCase(b.email))
                                /\ ~ bcryptCompare(b.password, u.password)

AuthAnswer(us, env, b) == Respond(AuthOutcome(us, b), 200, env)

LastAnswer == [status |-> last.status, body |-> last.body]

\* C1: the answer to a login with a wrong password is identical, in every
\* part, to the answer the same server gives a login with an unknown email.
C1_IdenticalFailure ==
    (ServiceLogin(last) /\ WrongPassword(users, last.req)) =>
        \A b \in CredentialBodies :
            UnknownEmail(users, b) => AuthAnswer(users, nodeEnv, b) = LastAnswer

\* What the two answers do share: both are 401 with the same message;
\* outside development mode they are identical, and in development mode
\* they differ in nothing but error.stack, which names the throw site.
C1_SameStatusAndMessage ==
    (ServiceLogin(last) /\ WrongPassword(users, last.req)) =>
        \A b \in CredentialBodies :
            UnknownEmail(users, b) =>
                LET other == AuthAnswer(users, nodeEnv, b)
                IN  /\ last.status = 401 /\ other.status = 401
                    /\ other.body.success = last.body.success
                    /\ other.body.error.message = last.body.error.message
                    /\ DOMAIN other.body.error = DOMAIN last.body.error
                    /\ nodeEnv # "development" => other = LastAnswer
                    /\ nodeEnv = "development" =>
                           DOMAIN other.body.error = {"message", "stack"}

\* a wrong password answered with a stack that an unknown email does not get
C1_Witness ==
    /\ ServiceLogin(last) /\ WrongPassword(users, last.req)
    /\ last.status = 401 /\ nodeEnv = "development"
    /\ \E b \in CredentialBodies :
          /\ UnknownEmail(users, b)
          /\ AuthAnswer(users, nodeEnv, b).status = 401
          /\ AuthAnswer(users, nodeEnv, b).body.error.stack # last.body.error.stack

\* C2: no stored user's password equals the plaintext password of the
\* request that created the record.
C2_NoPlaintextStored ==
    \A c \in created : \A u \in users : u.id = c.id => u.password # c.password

\* a record whose password field is the password its request carried
C2_Witness ==
    /\ last.route = "POST /api/user" /\ last.impl = "legacy" /\ last.status = 200
    /\ \E u \in users : u.email = last.req.email /\ u.password = last.req.password

\* C3: a registration whose email, lower-cased and trimmed, is the email of
\* an existing record is answered 409 and leaves the collection as it was.
C3_DuplicateIsConflict ==
    [][ (/\ ServiceRegister(last')
         /\ last'.req.json /\ "email" \in last'.req.has
         /\ \E u \in users : u.email = trim(toLowerCase(last'.req.email)))
        => (last'.status = 409 /\ users' = users) ]_vars

\* What does hold of such a registration: it is answered 409 when its body
\* passes the schema and 400 when it does not, and an address with
\* surrounding whitespace does not pass, the schema testing the shape of the
\* address before it trims; either way the collection is left as it was.
C3_DuplicateIsRejected ==
    [][ (/\ ServiceRegister(last')
         /\ last'.req.json /\ "email" \in last'.req.has
         /\ \E u \in users : u.email = trim(toLowerCase(last'.req.email)))
        => /\ last'.status = (IF ShapeOk(last'.req) THEN 409 ELSE 400)
           /\ users' = users ]_vars

C3_Witness ==
    /\ ServiceRegister(last) /\ last.status = 409
    /\ last.req.email = "A@x.io"
    /\ \E u \in users : u.email = "a@x.io"

\* the registration that is not answered 409: the stored address, padded
C3_PaddedDuplicate ==
    /\ ServiceRegister(last) /\ last.status = 400
    /\ last.req.email = " a@x.io" /\ Len(last.req.password) >= PasswordMin
    /\ \E u \in users : u.email = "a@x.io"

\* C4: once a registration through the service has succeeded, a login with
\* the email and password of that request is answered 200 with the id, email
\* and role the registration returned, whatever was registered or attempted
\* in between.
C4_LoginAfterRegister ==
    (ServiceLogin(last) /\ HasCredentials(last.req)) =>
        \A c \in created :
            (/\ c.impl = "service"
             /\ c.email = last.req.email
             /\ c.password = last.req.password)
            => (last.status = 200 /\ last.body.data = c.answer.data)

C4_Witness ==
    /\ ServiceLogin(last) /\ last.status = 200
    /\ \E c \in created : /\ c.impl = "service" /\ c.email = last.req.email
                          /\ c.email = "A@x.io" /\ c.password = last.req.password
    /\ Cardinality(users) = 2

AuthRoutes == {"POST /api/auth", "POST /api/user", "POST /api/admin"}

\* C5: every successful answer of login and of registration carries exactly
\* the user's id, email and role, and no stored password appears in it.
C5_OnlyTheDto ==
    (last.route \in AuthRoutes /\ last.status \in {200, 201}) =>
        /\ DOMAIN last.body = {"success", "data"}
        /\ DOMAIN last.body.data = {"id", "email", "roll"}

\* a registration answered with the stored record, password included
C5_Witness ==
    /\ last.route = "POST /api/admin" /\ last.impl = "legacy" /\ last.status = 200
    /\ "password" \in DOMAIN last.body
    /\ \E u \in users : u.id = last.body.id /\ u.password = last.body.password

\* C6: a record inserted by POST /api/user has role USER and a record
\* inserted by POST /api/admin has role ADMIN, whatever role the body names.
C6_RoleForced ==
    [][ \A u \in users' \ users :
          /\ last'.route = "POST /api/user" => u.roll = "USER"
          /\ last'.route = "POST /api/admin" => u.roll = "ADMIN" ]_vars

C6_Witness ==
    /\ last.route = "POST /api/user" /\ last.status = 201
    /\ "roll" \in last.req.has /\ last.req.roll = "ADMIN"
    /\ \E u \in users : u.id = last.body.data.id /\ u.roll = "USER"

\* C7: a login whose email is empty or not email-shaped, or whose password
\* has fewer than 8 or more than 100 characters, is answered 400 without a
\* read or a write on the user collection.
C7_InvalidLoginTouchesNothing ==
    (/\ ServiceLogin(last) /\ HasCredentials(last.req)
     /\ \/ last.req.email = "" \/ ~ isEmail(last.req.email)
        \/ Len(last.req.password) < PasswordMin
        \/ Len(last.req.password) > PasswordMax)
    => (last.status = 400 /\ last.reads = 0 /\ last.writes = 0)

C7_Witness ==
    /\ ServiceLogin(last) /\ last.req.password = TooLong
    /\ last.status = 400 /\ users # {}

-----------------------------------------------------------------------------
(***************************************************************************)
(* Properties of the product routes.                                       *)
(***************************************************************************)
PostedProduct(l)  == l.route = "POST /api/product" /\ l.status = 201
PutProductOk(l)   == l.route = "PUT /api/product" /\ l.status = 200
DeleteRequest(l)  == l.route = "DELETE /api/product"

\* what productService.getProductById answers for the id a POST returned
ReadBack(ps, l) == getProductById(ps, l.body.data.id)

ServerSet(ps, seen, l, now) ==
    /\ ReadBack(ps, l).ok
    /\ IsObjectId(ReadBack(ps, l).data.id)
    /\ ReadBack(ps, l).data.id \notin seen
    /\ ReadBack(ps, l).data.date = now
    /\ ReadBack(ps, l).data.status =
           IF "status" \in l.req.has THEN l.req.status ELSE "Activo"

IdsOf(ps) == {p.id : p \in ps}

\* C8 (as stated): a product created and then read by the returned id has
\* the submitted name, category and price, a generated id, the server's
\* timestamp, and status 'Activo' when none was submitted (the submitted
\* status otherwise).
C8_RoundTripEqualsInput ==
    [][ PostedProduct(last') =>
          /\ ServerSet(products', IdsOf(products) \cup deleted, last', clock)
          /\ ReadBack(products', last').data.name = last'.req.name
          /\ ReadBack(products', last').data.category = last'.req.category
          /\ ReadBack(products', last').data.price = last'.req.price ]_vars

\* no whitespace at either end, and no two whitespace characters in a row
Tidy(s) ==
    /\ s # "" => ~ IsSpace(CharAt(s, 1)) /\ ~ IsSpace(CharAt(s, Len(s)))
    /\ \A i \in 1..(Len(s) - 1) : ~ (IsSpace(CharAt(s, i)) /\ IsSpace(CharAt(s, i + 1)))

\* C8 (amended): the record read back has the submitted price, the submitted
\* name trimmed with every run of whitespace collapsed into one space, the
\* submitted category trimmed, a generated id, the server's timestamp, and
\* status 'Activo' when none was submitted (the submitted status otherwise);
\* a name and category submitted without surrounding or repeated whitespace
\* come back as submitted.
C8_RoundTripNormalized ==
    [][ PostedProduct(last') =>
          /\ ServerSet(products', IdsOf(products) \cup deleted, last', clock)
          /\ ReadBack(products', last').data.name = collapseSpaces(trim(last'.req.name))
          /\ Tidy(ReadBack(products', last').data.name)
          /\ Tidy(last'.req.name) => ReadBack(products', last').data.name = last'.req.name
          /\ ReadBack(products', last').data.category = trim(last'.req.category)
          /\ ReadBack(products', last').data.price = last'.req.price
          /\ products' = products \cup {ReadBack(products', last').data} ]_vars

C8_Witness ==
    /\ PostedProduct(last) /\ "status" \in last.req.has
    /\ last.req.name = " Big  Box " /\ ReadBack(products, last).ok
    /\ ReadBack(products, last).data.name = "Big Box"
    /\ ReadBack(products, last).data.status = "Inactivo"
    /\ \E p \in products : p.status = "Activo"

\* the record an id names in a collection
TheProduct(ps, id) == CHOOSE p \in ps : p.id = id

\* C9: a successful PUT changes exactly the fields its body supplies, to the
\* validated values supplied; the record's other fields, its id and its
\* date keep their values, and every other record is unchanged.
C9_PartialUpdateFrame ==
    [][ PutProductOk(last') =>
          LET id  == last'.req.id
              has == last'.req.has
              old == TheProduct(products, id)
              new == TheProduct(products', id)
          IN  /\ findProduct(products, id) # {} /\ findProduct(products', id) = {new}
              /\ new.id = old.id /\ new.date = old.date
              /\ new.name = IF "name" \in has THEN trim(last'.req.name) ELSE old.name
              /\ new.category =
                     IF "category" \in has THEN trim(last'.req.category) ELSE old.category
              /\ new.price = IF "price" \in has THEN last'.req.price ELSE old.price
              /\ new.status = IF "status" \in has THEN last'.req.status ELSE old.status
              /\ products' \ {new} = products \ {old}
              /\ last'.body.data = new ]_vars

C9_Witness ==
    /\ PutProductOk(last) /\ last.req.has = {"id", "price"}
    /\ Cardinality(products) = 2
    /\ \E p \in products :
          /\ p.id = last.req.id /\ p.price = 1005 /\ p.name = "Big Box"
          /\ p.status = "Inactivo"
    /\ \E p \in products : p.id # last.req.id /\ p.price = 9990

\* C10: once a DELETE of an id has succeeded the record is not in the
\* collection, and every later DELETE of that id is answered 404.
C10_DeleteThenNotFound ==
    [][ /\ \A id \in deleted' : findProduct(products', id) = {}
        /\ (DeleteRequest(last') /\ "id" \in last'.req.has /\ last'.req.id \in deleted)
               => (last'.status = 404 /\ products' = products) ]_vars

C10_Witness ==
    /\ DeleteRequest(last) /\ last.status = 404
    /\ last.req.id \in deleted /\ products # {}

GotProducts(l) == l.route = "GET /api/product" /\ l.status = 200

Range(f) == {f[i] : i \in DOMAIN f}

\* C11: a GET answers every record of the collection exactly once, later
\* creation instants first, and the GET that follows a creation lists the
\* product just created first.
C11_NewestFirst ==
    [][ GotProducts(last') =>
          /\ Range(last'.body.data) = products
          /\ Len(last'.body.data) = Cardinality(products)
          /\ \A i, j \in DOMAIN last'.body.data :
                i < j => last'.body.data[i].date >= last'.body.data[j].date
          /\ PostedProduct(last) => last'.body.data[1] = last.body.data ]_vars

\* C11 (amended): a GET answers every record of the collection exactly once,
\* later creation instants first; the GET that follows a creation lists the
\* product just created first when no other record carries the same or a
\* later instant, and before every record of an earlier instant in any case.
C11_LatestInstantFirst ==
    [][ GotProducts(last') =>
          /\ Range(last'.body.data) = products
          /\ Len(last'.body.data) = Cardinality(products)
          /\ \A i, j \in DOMAIN last'.body.data :
                i < j => last'.body.data[i].date >= last'.body.data[j].date
          /\ PostedProduct(last) =>
                /\ last.body.data \in products
                /\ (\A p \in products \ {last.body.data} : p.date < last.body.data.date)
                       => last'.body.data[1] = last.body.data
                /\ \A i, j \in DOMAIN last'.body.data :
                       (/\ last'.body.data[j] = last.body.data
                        /\ last'.body.data[i].date < last.body.data.date) => j < i ]_vars

\* a listing of two products created at different instants, the later first
C11_Witness ==
    /\ GotProducts(last) /\ Len(last.body.data) = 2
    /\ last.body.data[1].date > last.body.data[2].date
    /\ last.body.data[1].id = ObjectId(2)

\* C12: every record of the product collection has a price above zero and
\* a status that is 'Activo' or 'Inactivo', whatever requests succeeded or
\* failed before.
C12_PriceAndStatusValid ==
    \A p \in products : p.price > 0 /\ p.status \in Statuses

\* two valid records left in place by an update asking for a price of zero
C12_Witness ==
    /\ last.route = "PUT /api/product" /\ last.status = 400
    /\ "price" \in last.req.has /\ last.req.price <= 0
    /\ Cardinality(products) = 2
    /\ \E p \in products : p.id = last.req.id /\ p.price = 1005 /\ p.status = "Inactivo"

\* C13: every stored price is a whole number of hundredths, and a POST or
\* PUT whose price has more than two decimals is answered 400.
C13_AtMostTwoDecimals ==
    /\ \A p \in products : AtMostTwoDecimals(p.price)
    /\ (/\ last.route \in {"POST /api/product", "PUT /api/product"}
        /\ "price" \in last.req.has /\ ~ AtMostTwoDecimals(last.req.price))
       => last.status = 400

\* a price of 1.005 accepted by PUT and stored
C13_Witness ==
    /\ PutProductOk(last) /\ last.req.price = 1005
    /\ \E p \in products : p.id = last.req.id /\ p.price = 1005

ByIdRoutes == {"getProductById", "PUT /api/product", "DELETE /api/product"}

\* a request that names a well-formed id of which the collection has no record
AddressedToNoRecord(l, ps) ==
    /\ l.route \in ByIdRoutes /\ l.req.json /\ "id" \in l.req.has
    /\ IsObjectId(l.req.id) /\ findProduct(ps, l.req.id) = {}

\* C14: a read by id, an update or a delete naming a well-formed id that has
\* no record is answered 404 and leaves the product collection unchanged.
C14_NoRecordIsNotFound ==
    [][ AddressedToNoRecord(last', products)
          => (last'.status = 404 /\ products' = products) ]_vars

\* the fields of an update other than its id pass UpdateProductSchema
ChangesValid(b) ==
    /\ "name" \in b.has => (Len(b.name) >= 1 /\ Len(b.name) <= NameMax /\ trim(b.name) # "")
    /\ "category" \in b.has =>
           (Len(b.category) >= 1 /\ Len(b.category) <= CategoryMax /\ trim(b.category) # "")
    /\ "price" \in b.has => b.price > 0
    /\ "status" \in b.has => b.status \in Statuses

\* C14 (amended): such a request leaves the product collection unchanged;
\* it is answered 404, except an update whose other fields fail validation,
\* which is answered 400 before any lookup.
C14_NoRecordIsNotFoundOrInvalid ==
    [][ AddressedToNoRecord(last', products) =>
          /\ products' = products
          /\ last'.status =
                 IF last'.route = "PUT /api/product" /\ ~ ChangesValid(last'.req)
                 THEN 400 ELSE 404
          /\ last'.status = 404 =>
                 /\ last'.body.success = FALSE
                 /\ last'.reads = 1 /\ last'.writes = 0 ]_vars

C14_Witness ==
    /\ last.route = "PUT /api/product" /\ last.status = 404
    /\ last.req.id = ForeignId /\ "price" \in last.req.has
    /\ products # {}

-----------------------------------------------------------------------------
(***************************************************************************)
(* Properties of the error responses.                                      *)
(***************************************************************************)
Handled(l) == l.route = "handleApiError"

ErrorKeys(l) == DOMAIN l.body.error

\* C15: an error response carries error.details or error.stack only outside
\* production mode; in production mode it carries error.message alone,
\* whatever kind of error it answers.
C15_DetailsOnlyOutsideProduction ==
    Handled(last) =>
        /\ (ErrorKeys(last) \cap {"details", "stack"} # {}) => nodeEnv # "production"
        /\ nodeEnv = "production" => ErrorKeys(last) = {"message"}

\* C15 (amended): the response to a validation error carries error.message
\* and error.details, the list of field messages, in every mode; the
\* response to an application error carries error.stack, and the response
\* to an unexpected error error.details and error.stack, in development
\* mode only; in every other mode, production included, these two carry
\* error.message alone.
C15_DetailsByKindAndMode ==
    Handled(last) =>
        ErrorKeys(last) =
            IF last.req.kind = "ZodError" THEN {"message", "details"}
            ELSE IF nodeEnv # "development" THEN {"message"}
            ELSE IF last.req.kind = "AppError" THEN {"message", "stack"}
            ELSE {"message", "details", "stack"}

\* a validation error answered in production mode, its field messages listed
C15_Witness ==
    /\ Handled(last) /\ nodeEnv = "production" /\ last.status = 400
    /\ "details" \in ErrorKeys(last) /\ Len(last.body.error.details) = 2

GenericMessage == "Error interno del servidor"

\* C18: an error that is neither a validation error nor an application
\* error is answered 500 with the fixed generic message, and in production
\* mode with nothing else: no message and no stack of the error caught.
C18_UnexpectedIsGeneric500 ==
    (Handled(last) /\ last.req \in UnexpectedErrors) =>
        /\ last.status = 500
        /\ last.body.success = FALSE
        /\ last.body.error.message = GenericMessage
        /\ last.req.message # GenericMessage
        /\ nodeEnv = "production" => ErrorKeys(last) = {"message"}

C18_Witness ==
    /\ Handled(last) /\ last.req = UniqueConstraintFailed
    /\ nodeEnv = "production" /\ last.status = 500
    /\ last.body.error = [message |-> GenericMessage]

HandlerRoutes ==
    AuthRoutes \cup {"GET /api/product", "POST /api/product", "PUT /api/product",
                     "DELETE /api/product"}

SuccessEnvelope(l) ==
    /\ DOMAIN l.body = {"success", "data"}
    /\ l.body.success = TRUE /\ l.status < 400

ErrorEnvelope(l) ==
    /\ DOMAIN l.body = {"success", "error"}
    /\ l.body.success = FALSE /\ l.status >= 400
    /\ "message" \in DOMAIN l.body.error
    /\ DOMAIN l.body.error \subseteq {"message", "details", "stack"}

\* C16: every response of the auth, user, admin and product handlers is
\* {success: true, data} with a status below 400 or {success: false,
\* error: {message, ...}} with a status of 400 or above.
C16_Envelope ==
    last.route \in HandlerRoutes => (SuccessEnvelope(last) \/ ErrorEnvelope(last))

\* a registration answered with the bare stored record
C16_Witness ==
    /\ last.route = "POST /api/admin" /\ last.impl = "legacy" /\ last.status = 200
    /\ "success" \notin DOMAIN last.body /\ "email" \in DOMAIN last.body
    /\ Cardinality(users) = 2

\* the keys each handler's schema requires of the body
RequiredKeys(route) ==
    IF route \in AuthRoutes THEN {"email", "password"}
    ELSE IF route = "POST /api/product" THEN {"name", "category", "price"}
    ELSE IF route \in {"PUT /api/product", "DELETE /api/product"} THEN {"id"}
    ELSE {}

Malformed(l) == ~ l.req.json \/ ~ (RequiredKeys(l.route) \subseteq l.req.has)

\* C17: a request to one of the handlers that read a body, whose body is
\* not JSON or lacks a required field, is answered 400.
C17_MalformedIs400 ==
    (last.route \in HandlerRoutes /\ last.impl = "service" /\ Malformed(last))
        => last.status = 400

\* a login whose body is not JSON, answered 500
C17_Witness ==
    /\ ServiceLogin(last) /\ ~ last.req.json
    /\ last.status = 500 /\ last.body.success = FALSE
    /\ users # {}

\* what does hold: a body that parses as JSON and lacks a required field is
\* answered 400
C17_MissingFieldIs400 ==
    (/\ last.route \in HandlerRoutes /\ last.impl = "service"
     /\ last.req.json /\ ~ (RequiredKeys(last.route) \subseteq last.req.has))
        => last.status = 400

-----------------------------------------------------------------------------
(***************************************************************************)
(* Properties of concurrent registrations and of the life of a user record.*)
(***************************************************************************)
BothAnsweredFor(email) ==
    \A r \in Requests : inflight[r].pc = "answered" /\ inflight[r].email = email

\* C19: when two registrations of one normalized email have both been
\* answered, exactly one record carries that email, one request was
\* answered 201 and the other 409.
C19_LoserGetsConflict ==
    \A email \in {"a@x.io", "b@x.io"} :
        BothAnsweredFor(email) =>
            /\ Cardinality(findUserByEmail(users, email)) = 1
            /\ \E r \in Requests :
                  /\ inflight[r].status = 201
                  /\ \A q \in Requests \ {r} : inflight[q].status = 409

\* both read before either wrote: one is answered 201 and the other 500
C19_Witness ==
    /\ BothAnsweredFor("a@x.io")
    /\ inflight["r1"].status = 201 /\ inflight["r2"].status = 500
    /\ inflight["r1"].req.email # inflight["r2"].req.email
    /\ Cardinality(users) = 1

\* what does hold: no two records carry one email, and the request that did
\* not create the record is answered 409 or 500
C19_OneRecordPerEmail ==
    /\ \A u, w \in users : u.email = w.email => u = w
    /\ \A email \in {"a@x.io", "b@x.io"} :
          BothAnsweredFor(email) =>
              /\ Cardinality(findUserByEmail(users, email)) = 1
              /\ \E r \in Requests :
                    /\ inflight[r].status = 201
                    /\ \A q \in Requests \ {r} : inflight[q].status \in {409, 500}

-----------------------------------------------------------------------------
(***************************************************************************)
(* Side effects of the services.                                           *)
(***************************************************************************)
\* C21: a login and a registration of the service each read the user
\* collection at most once and write it at most once; a login writes
\* nothing and leaves the collection as it was; a registration that is not
\* answered 201 writes nothing and leaves the collection as it was; one
\* that is answered 201 adds exactly the one record it wrote.
C21_AtMostOneReadOneWrite ==
    [][ /\ ServiceLogin(last') =>
              /\ last'.reads <= 1 /\ last'.writes = 0
              /\ users' = users
        /\ ServiceRegister(last') =>
              /\ last'.reads <= 1 /\ last'.writes <= 1
              /\ users \subseteq users'
              /\ Cardinality(users' \ users) = last'.writes
              /\ last'.status # 201 => last'.writes = 0 /\ users' = users ]_vars

\* a registration stopped by the uniqueness read: one read, no write
C21_Witness ==
    /\ users # {}
    /\ ServiceRegister(last) /\ last.status = 409 /\ last.reads = 1 /\ last.writes = 0

\* C22: every product operation that writes the collection has read the
\* targeted id before.
WritingRoutes == {"POST /api/product", "PUT /api/product", "DELETE /api/product"}
C22_ReadBeforeEveryWrite ==
    last.route \in WritingRoutes /\ last.writes >= 1 => last.reads >= 1

\* C22 (amended): an update and a delete that write have read the targeted
\* id once and found it, and when the id is not in the collection they write
\* nothing and leave the collection as it was; a create writes without
\* reading.
C22_UpdateAndDeleteReadFirst ==
    [][ /\ last'.route \in {"PUT /api/product", "DELETE /api/product"} =>
              /\ last'.writes = 1 =>
                    last'.reads = 1 /\ findProduct(products, last'.req.id) # {}
              /\ findProduct(products, last'.req.id) = {} =>
                    last'.writes = 0 /\ products' = products
        /\ last'.route = "POST /api/product" =>
              last'.reads = 0 /\ last'.writes = (IF last'.status = 201 THEN 1 ELSE 0) ]_vars

\* an update addressed to an id that is well formed and not in the
\* collection: it read once, wrote nothing
C22_Witness ==
    /\ products # {}
    /\ last.route = "PUT /api/product" /\ last.status = 404
    /\ last.reads = 1 /\ last.writes = 0

-----------------------------------------------------------------------------
(***************************************************************************)
(* Properties of the persistence handles.                                  *)
(***************************************************************************)
\* C23: in one process mongoose.connect is called at most once and a
\* PrismaClient is constructed at most once, however many calls obtain the
\* handle and however they interleave with the first connect; every call
\* that returned holds the handle of that one connect, and every import
\* holds that one client.
C23_InitializedOnce ==
    /\ connection.connects <= 1
    /\ connection.clients <= 1
    /\ \A c \in Callers :
          connection.callers[c].pc = "returned" =>
              connection.connects = 1 /\ connection.callers[c].conn = 1
    /\ connection.imported \subseteq {1}
    /\ connection.exported # 0 => connection.clients = 1 /\ connection.exported = 1

\* three calls made before the first connect had completed, all returned
\* with the one handle, and the client module evaluated twice
C23_Witness ==
    /\ \A c \in Callers :
          /\ connection.callers[c].pc = "returned"
          /\ connection.callers[c].promise = 1
    /\ connection.calls = 3
    /\ connection.evaluations = 2 /\ connection.imported = {1}

-----------------------------------------------------------------------------
(***************************************************************************)
(* Properties of the sales cart.                                           *)
(***************************************************************************)
WholeAtLeastOne(x) == ~ isNaN(x) /\ x.n \in Nat /\ x.n >= 1

\* C24: every line item of the cart has an integer quantity of at least 1
\* and a total equal to its unit price times its quantity, whatever was
\* typed in the quantity field and whatever was added, changed and removed.
C24_QuantityAtLeastOne ==
    \A i \in 1..Len(cart.items) :
        /\ WholeAtLeastOne(cart.items[i].quantity)
        /\ cart.items[i].total = JSNumber(cart.items[i].price * cart.items[i].quantity.n)

\* a line item added with "0" in the quantity field
C24_Witness ==
    \E i \in 1..Len(cart.items) :
        ~ isNaN(cart.items[i].quantity) /\ cart.items[i].quantity.n = 0

\* C27: when a deferred removal takes effect, the cart holds exactly the
\* line items it held just before, less those with the removed id: each
\* other item as it was then, quantity and total included.
C27_RemovesOnlyThatItem ==
    [][ \A timer \in cart.timers :
            timer \notin cart'.timers =>
                cart'.items = without(cart.items, timer.id) ]_vars

\* a removal is pending and the cart is no longer the one it was clicked in:
\* an item was added or a quantity changed since
C27_Witness ==
    \E timer \in cart.timers :
        /\ timer.items # cart.items
        /\ \E i \in 1..Len(cart.items) : cart.items[i].id # timer.id

-----------------------------------------------------------------------------
(***************************************************************************)
(* Properties of the product records over time.                            *)
(***************************************************************************)
\* C25: a PUT leaves the ids of the collection and the date of every record
\* as they were; a POST leaves the records there as they were, and the
\* record it adds has the id the store generated and the date of the
\* server's clock, whatever id and date the body carried.
C25_IdAndDateFromServer ==
    [][ /\ last'.route = "PUT /api/product" =>
              /\ IdsOf(products') = IdsOf(products)
              /\ \A p \in products, q \in products' : q.id = p.id => q.date = p.date
        /\ last'.route = "POST /api/product" =>
              /\ products \subseteq products'
              /\ \A q \in products' \ products :
                    q.id = ObjectId(nextProductId + 1) /\ q.date = clock ]_vars

\* an update whose body carried a date of its own was applied, and the
\* record holds the price of that body and a date that is not the body's
C25_Witness ==
    /\ last.route = "PUT /api/product" /\ last.status = 200
    /\ "date" \in last.req.has
    /\ \E p \in products :
          p.id = last.req.id /\ p.price = last.req.price /\ p.date # last.req.date

AnsweredDelete(r) ==
    inflight[r].pc = "answered" /\ inflight[r].route = "DELETE /api/product"

\* C26: of two deletions handled at once for one id of the collection, one
\* is answered 200 with the record removed and the other 404.
C26_OtherIsNotFound ==
    \A r, q \in Requests :
        /\ r # q /\ AnsweredDelete(r) /\ AnsweredDelete(q)
        /\ inflight[r].req.id = inflight[q].req.id
        /\ inflight[r].status = 200
        => /\ inflight[r].body.data.id = inflight[r].req.id
           /\ inflight[q].status = 404

\* both deletions read the record before either removed it: one is
\* answered 200, the other the generic 500
C26_Witness ==
    \E r, q \in Requests :
        /\ AnsweredDelete(r) /\ AnsweredDelete(q)
        /\ inflight[r].req.id = inflight[q].req.id
        /\ inflight[r].status = 200 /\ inflight[q].status = 500
        /\ inflight[q].body.error.message = GenericMessage

-----------------------------------------------------------------------------
(***************************************************************************)
(* Properties of useProducts.                                              *)
(***************************************************************************)
ByHook(l) == l.impl = "useProducts"

\* C28: after every operation of the hook its list is the collection as a
\* GET would answer it, whichever of the orders open to GET that is; an
\* operation the server rejects leaves the list as it was.
C28_ListIsTheCollection ==
    [][ ByHook(last') =>
          /\ \A l \in Listings(products') : hook'.products = l
          /\ ~ ok([status |-> last'.status]) => hook'.products = hook.products ]_vars

\* C28 (amended): an operation the server rejects leaves the list as it
\* was; a fetch the server answers makes the list the answer, which is the
\* collection with later creation instants first; and an operation that
\* finds the list to be the collection in such an order leaves it so.
C28_ListFollowsTheCollection ==
    [][ ByHook(last') =>
          /\ ~ ok([status |-> last'.status]) => hook'.products = hook.products
          /\ last'.route = "GET /api/product" /\ last'.status = 200 =>
                hook'.products \in Listings(products')
          /\ hook.products \in Listings(products) =>
                hook'.products \in Listings(products') ]_vars

\* two products created through the hook at different instants, the later
\* one first in the list, and an update applied to one of them
C28_Witness ==
    /\ ByHook(last) /\ last.route = "PUT /api/product" /\ last.status = 200
    /\ Len(hook.products) = 2
    /\ hook.products[1].date > hook.products[2].date
    /\ \E i \in 1..2 : hook.products[i] = last.body.data
    /\ Range(hook.products) = products

-----------------------------------------------------------------------------
(***************************************************************************)
(* Properties of the password migration.                                   *)
(***************************************************************************)
\* the record holds a bcrypt digest of the password it was created with, and
\* not that password
StoresDigest(u) ==
    \E c \in created :
        c.id = u.id /\ u.password # c.password /\ bcryptCompare(c.password, u.password)

\* C29: when a run of the migration ends with no error counted, and no user
\* was registered since it read the collection, every record stores a
\* bcrypt digest of its password and none stores the password itself.
C29_AllDigestsAfterMigration ==
    [][ (/\ migration.pc = "running" /\ migration'.pc = "done"
         /\ migration'.errorCount = 0
         /\ Cardinality(users') = migration'.total)
        => \A u \in users' : StoresDigest(u) ]_vars

\* the run is over with no error, every record was read by it, and one
\* still holds the password it was registered with, which begins as a
\* digest does
C29_Witness ==
    /\ migration.pc = "done" /\ migration.errorCount = 0
    /\ Cardinality(users) = migration.total
    /\ \E u \in users : \E c \in created :
          c.id = u.id /\ u.password = c.password /\ isAlreadyHashed(u.password)

=============================================================================
